---- MODULE Spec2Model ----
(***************************************************************************)
(* Voxel world engine: Chunk (chunk.ts), World / chunk streamer            *)
(* (world.ts), overworld TerrainGenerator (terrain.ts) and the part of     *)
(* StructureGenerator (structures.ts) that World.updateChunks calls.       *)
(*                                                                         *)
(* Chunk objects live in `heap` (instance id -> fields) because the world  *)
(* map and the rebuild queue hold references to the same objects.  The     *)
(* world map is kept as the sequence of its values in insertion order,     *)
(* which is the order a JavaScript Map iterates in.                        *)
(*                                                                         *)
(* Distances: the code compares Math.sqrt(dx*dx+dz*dz) values with each    *)
(* other and with integers; the model keeps the squared distance and       *)
(* compares squares, which orders the same way.                            *)
(***************************************************************************)
EXTENDS Integers, Sequences, FiniteSets, TLC

\* ---------------------------------------------------------------- bounds
\* Scaled-down chunk extent (the source uses 32 x 128 x 32).
CHUNK_SIZE == 3
CHUNK_HEIGHT == 2
\* Constructor argument renderDistance (default 6, the game passes 8).
RenderDistance == 1
\* Caps on the length of a run.
MaxTicks == 4
MaxEdits == 2
MaxSwitches == 1
\* Caps of the block-edit and block-query specifications.
EditTicks == 2
EditEdits == 1
QueryTicks == 2
QueryEdits == 1
LiveWarm == 2
LiveEdits == 1
LiveSwitches == 1
StructTicks == 2
StructEdits == 2
StructSwitches == 1
StructCalls == 3
PureCalls == 1
\* Render distances a world is constructed with in the function
\* specification: 1..MaxRenderDistance (the default is 6, the game passes 8).
MaxRenderDistance == 8
\* World coordinates translated range over -CoordRange..CoordRange.
CoordRange == 7
StillTicks == 8
TorchTicks == 3
\* Inventory.inventorySize (36 in the source) and CraftingSystem.gridSize (2
\* or 3 in the source).
InventorySize == 2
GridSize == 2
TorchEdits == 21
StillEdits == 1
StillSwitches == 1

\* ------------------------------------------------------- block catalogue
AIR == 0
GRASS == 1
DIRT == 2
STONE == 3
WATER == 5
WOOD == 6
BEDROCK == 8
GOLD_ORE == 11
GLASS == 14
TORCH == 18
GRAVEL == 26
CLAY == 27
END_STONE == 41

BlockTypes == {AIR, GRASS, DIRT, STONE, WATER, WOOD, BEDROCK, GOLD_ORE, GLASS, TORCH,
               GRAVEL, CLAY, END_STONE}

\* BLOCKS[t].solid
Solid(t) == t \in {GRASS, DIRT, STONE, WOOD, BEDROCK, GOLD_ORE, GLASS, GRAVEL, CLAY,
                   END_STONE}
\* BLOCKS[t].transparent
Transparent(t) == t \in {AIR, WATER, GLASS, TORCH}

Nil == -1

\* ------------------------------------------------------------ arithmetic
\* JavaScript % : the result takes the sign of the dividend.
JsMod(a, b) == IF a >= 0 THEN a % b ELSE -((-a) % b)
\* Math.floor(a / b) for b > 0.
FloorDiv(a, b) == a \div b
\* ((w % CHUNK_SIZE) + CHUNK_SIZE) % CHUNK_SIZE
\* Variant: the local coordinate is w % CHUNK_SIZE.
LocalCoordJsMod(w) == JsMod(w, CHUNK_SIZE)

LocalCoord(w) == JsMod(JsMod(w, CHUNK_SIZE) + CHUNK_SIZE, CHUNK_SIZE)
ChunkCoord(w) == FloorDiv(w, CHUNK_SIZE)

\* ----------------------------------------------------------------- Chunk
NumBlocks == CHUNK_SIZE * CHUNK_HEIGHT * CHUNK_SIZE

\* Variant: a factor CHUNK_SIZE dropped from the row stride.
GetBlockIndexNoStride(x, y, z) == y * CHUNK_SIZE + z * CHUNK_SIZE + x

GetBlockIndex(x, y, z) == y * CHUNK_SIZE * CHUNK_SIZE + z * CHUNK_SIZE + x

OutOfChunk(x, y, z) ==
    x < 0 \/ x >= CHUNK_SIZE \/ y < 0 \/ y >= CHUNK_HEIGHT \/ z < 0 \/ z >= CHUNK_SIZE

\* new Chunk(x, z)
NewChunk(cx, cz) ==
    [chunkX |-> cx, chunkZ |-> cz,
     blocks |-> [i \in 0..(NumBlocks - 1) |-> AIR],
     mesh |-> {}, waterMesh |-> {}, torchGroup |-> FALSE,
     torchPositions |-> <<>>,
     needsRebuild |-> TRUE, isGenerated |-> FALSE,
     disposed |-> FALSE, everMeshed |-> FALSE]

\* Variant: the upper height test is y > CHUNK_HEIGHT; a typed-array read past
\* the end yields undefined (Nil).
ChunkGetBlockOffByOne(c, x, y, z) ==
    IF x < 0 \/ x >= CHUNK_SIZE \/ y < 0 \/ y > CHUNK_HEIGHT \/ z < 0 \/ z >= CHUNK_SIZE
    THEN AIR
    ELSE IF GetBlockIndex(x, y, z) \in DOMAIN c.blocks
         THEN c.blocks[GetBlockIndex(x, y, z)] ELSE Nil

ChunkGetBlock(c, x, y, z) ==
    IF OutOfChunk(x, y, z) THEN AIR ELSE c.blocks[GetBlockIndex(x, y, z)]

\* Variant: the write does not set needsRebuild.
ChunkSetBlockNoFlag(c, x, y, z, type) ==
    IF OutOfChunk(x, y, z) THEN c
    ELSE [c EXCEPT !.blocks[GetBlockIndex(x, y, z)] = type]

ChunkSetBlock(c, x, y, z, type) ==
    IF OutOfChunk(x, y, z) THEN c
    ELSE [c EXCEPT !.blocks[GetBlockIndex(x, y, z)] = type, !.needsRebuild = TRUE]

\* ----------------------------------------------------------------- World
\* this.chunks.get(key): the instance id stored under key (cx, cz), or Nil.
GetChunk(w, cx, cz) ==
    LET hits == {i \in 1..Len(w.chunks) :
                    /\ w.heap[w.chunks[i]].chunkX = cx
                    /\ w.heap[w.chunks[i]].chunkZ = cz}
    IN IF hits = {} THEN Nil ELSE w.chunks[CHOOSE i \in hits : TRUE]

HasChunk(w, cx, cz) == GetChunk(w, cx, cz) # Nil

WorldGetBlock(w, wx, wy, wz) ==
    LET Read(id) ==
            IF id = Nil \/ ~w.heap[id].isGenerated THEN AIR
            ELSE ChunkGetBlock(w.heap[id], LocalCoord(wx), wy, LocalCoord(wz))
    IN Read(GetChunk(w, ChunkCoord(wx), ChunkCoord(wz)))

MarkChunkForRebuild(w, cx, cz) ==
    LET Mark(id) ==
            IF id # Nil /\ w.heap[id].isGenerated
            THEN [w EXCEPT !.heap[id].needsRebuild = TRUE]
            ELSE w
    IN Mark(GetChunk(w, cx, cz))

\* Variant: the neighbour marking runs even when the target chunk is missing.
WorldSetBlockNoReturn(w, wx, wy, wz, type) ==
    LET cx == ChunkCoord(wx)
        cz == ChunkCoord(wz)
        lx == LocalCoord(wx)
        lz == LocalCoord(wz)
        MarkIf(edge, v, x, z) == IF edge THEN MarkChunkForRebuild(v, x, z) ELSE v
        Put(id) ==
            MarkIf(lz = CHUNK_SIZE - 1,
              MarkIf(lz = 0,
                MarkIf(lx = CHUNK_SIZE - 1,
                  MarkIf(lx = 0,
                         IF id = Nil \/ ~w.heap[id].isGenerated THEN w
                         ELSE [w EXCEPT !.heap[id] = ChunkSetBlock(@, lx, wy, lz, type)],
                         cx - 1, cz),
                  cx + 1, cz),
                cx, cz - 1),
              cx, cz + 1)
    IN Put(GetChunk(w, cx, cz))

\* Variant: the far-edge tests compare with CHUNK_SIZE instead of CHUNK_SIZE - 1.
WorldSetBlockEdgeOffByOne(w, wx, wy, wz, type) ==
    LET cx == ChunkCoord(wx)
        cz == ChunkCoord(wz)
        lx == LocalCoord(wx)
        lz == LocalCoord(wz)
        MarkIf(edge, v, x, z) == IF edge THEN MarkChunkForRebuild(v, x, z) ELSE v
        Put(id) ==
            IF id = Nil \/ ~w.heap[id].isGenerated THEN w
            ELSE MarkIf(lz = CHUNK_SIZE,
                   MarkIf(lz = 0,
                     MarkIf(lx = CHUNK_SIZE,
                       MarkIf(lx = 0,
                              [w EXCEPT !.heap[id] = ChunkSetBlock(@, lx, wy, lz, type)],
                              cx - 1, cz),
                       cx + 1, cz),
                     cx, cz - 1),
                   cx, cz + 1)
    IN Put(GetChunk(w, cx, cz))

WorldSetBlock(w, wx, wy, wz, type) ==
    LET cx == ChunkCoord(wx)
        cz == ChunkCoord(wz)
        lx == LocalCoord(wx)
        lz == LocalCoord(wz)
        MarkIf(edge, v, x, z) == IF edge THEN MarkChunkForRebuild(v, x, z) ELSE v
        Put(id) ==
            IF id = Nil \/ ~w.heap[id].isGenerated THEN w
            ELSE MarkIf(lz = CHUNK_SIZE - 1,
                   MarkIf(lz = 0,
                     MarkIf(lx = CHUNK_SIZE - 1,
                       MarkIf(lx = 0,
                              [w EXCEPT !.heap[id] = ChunkSetBlock(@, lx, wy, lz, type)],
                              cx - 1, cz),
                       cx + 1, cz),
                     cx, cz - 1),
                   cx, cz + 1)
    IN Put(GetChunk(w, cx, cz))

\* ------------------------------------------------------ TerrainGenerator
\* Scaled sea level (the source uses 40 of 128 rows).
SEA_LEVEL == 1

\* getTerrainHeight: the seeded noise field, fixed after construction, is
\* represented by a fixed function of the world column.
TerrainHeight(wx, wz) == (wx + wz) % 3

\* getBiome: like the height, a fixed function of the world column. One
\* column, in the chunk the far observer stands in, is ocean; the rest is
\* plains.
OceanX == (2 * RenderDistance + 3) * CHUNK_SIZE + 1
Biome(wx, wz) == IF wx = OceanX /\ wz = 0 THEN "ocean" ELSE "plains"

\* Column fill of generateChunk (plains and ocean biome, no cave or ore noise
\* hit). clay is the outcome of the test Math.random() < 0.3 made for an
\* ocean surface block.
TerrainBlock(wx, y, wz, clay) ==
    LET height == TerrainHeight(wx, wz)
        biome == Biome(wx, wz)
    IN IF y = 0 THEN BEDROCK
       ELSE IF y < height - 4 THEN STONE
       ELSE IF y < height
            THEN IF biome = "ocean" THEN (IF y < height - 2 THEN STONE ELSE GRAVEL)
                 ELSE DIRT
       ELSE IF y = height
            THEN IF biome = "ocean" THEN (IF clay THEN CLAY ELSE GRAVEL)
                 ELSE GRASS
       ELSE IF y <= SEA_LEVEL /\ y > height THEN WATER
       ELSE AIR

IndexX(i) == i % CHUNK_SIZE
IndexZ(i) == (i \div CHUNK_SIZE) % CHUNK_SIZE
IndexY(i) == i \div (CHUNK_SIZE * CHUNK_SIZE)

\* Variant: the generator does not set isGenerated.
TerrainGenerateChunkNoFlag(c, clay) ==
    LET worldOffsetX == c.chunkX * CHUNK_SIZE
        worldOffsetZ == c.chunkZ * CHUNK_SIZE
    IN [c EXCEPT
          !.blocks = [i \in 0..(NumBlocks - 1) |->
                        TerrainBlock(worldOffsetX + IndexX(i), IndexY(i),
                                     worldOffsetZ + IndexZ(i), clay)],
          !.needsRebuild = TRUE]

\* clay: the outcome of the Math.random() tests of this call (the world has
\* one ocean column, so a call makes at most one).
TerrainGenerateChunk(c, clay) ==
    LET worldOffsetX == c.chunkX * CHUNK_SIZE
        worldOffsetZ == c.chunkZ * CHUNK_SIZE
    IN [c EXCEPT
          !.blocks = [i \in 0..(NumBlocks - 1) |->
                        TerrainBlock(worldOffsetX + IndexX(i), IndexY(i),
                                     worldOffsetZ + IndexZ(i), clay)],
          !.isGenerated = TRUE,
          !.needsRebuild = TRUE]

\* EndGenerator.generateChunk: an end-stone slab; same contract as the
\* overworld generator (fills the chunk, then marks it generated and dirty).
EndGenerateChunk(c) ==
    [c EXCEPT
       !.blocks = [i \in 0..(NumBlocks - 1) |->
                     IF IndexY(i) = 0 THEN END_STONE ELSE AIR],
       !.isGenerated = TRUE,
       !.needsRebuild = TRUE]

\* ---------------------------------------------------- StructureGenerator
\* Offset of the probed column inside the triggering chunk (8 of 32 in the
\* source, scaled).
ProbeOffset == 1

\* shouldGenerateStructure: a deterministic function of the chunk coordinate.
ShouldGenerateStructure(cx, cz) == (cx + cz) % 2 = 0

\* Ground probe of tryGenerateRuinedPortal: topmost block of the column that
\* is neither air nor water, or -1.
RECURSIVE FindGround(_, _, _, _)
FindGround(w, x, ty, z) ==
    IF ty <= 0 THEN -1
    ELSE LET block == WorldGetBlock(w, x, ty, z)
         IN IF block # AIR /\ block # WATER THEN ty
            ELSE FindGround(w, x, ty - 1, z)

\* A LootChest: its position and its items (named by the first item).
LootChest(x, y, z, items) == [x |-> x, y |-> y, z |-> z, items |-> items]

\* A run of world.setBlock calls, in order. (The second test never holds; it
\* reads the world, so that each call is evaluated before the next one.)
RECURSIVE ApplyWrites(_, _)
ApplyWrites(w, writes) ==
    IF writes = <<>> \/ Len(w.chunks) < 0 THEN w
    ELSE ApplyWrites(WorldSetBlock(w, Head(writes)[1], Head(writes)[2], Head(writes)[3],
                                   Head(writes)[4]),
                     Tail(writes))

TryGenerateRuinedPortal(w, x, z) ==
    LET Build(y) ==
            IF y < 0 THEN w
            ELSE
              [ApplyWrites(w, << <<x - 2, y + 1, z, BEDROCK>>,
                                 <<x + 2, y + 1, z, BEDROCK>>,
                                 <<x + 1, y + 1, z - 1, GOLD_ORE>> >>)
                 EXCEPT !.lootChests = Append(@, LootChest(x + 1, y + 1, z - 1, "obsidian"))]
    IN Build(FindGround(w, x, CHUNK_HEIGHT - 1, z))

\* Rows probed by tryGenerateShipwreck, from ScanTop down to 1 (60 down to 11
\* in the source), and the depth it requires.
ScanTop == 7
ShipwreckMinDepth == 5

\* The scan loop of tryGenerateShipwreck over the probed column: probe[ty] is
\* the result of world.getBlock(x, ty, z). Yields <<waterSurface, oceanFloor>>.
RECURSIVE ShipwreckScan(_, _, _)
ShipwreckScan(probe, ty, waterSurface) ==
    IF ty <= 0 THEN <<waterSurface, -1>>
    ELSE LET Step(ws) ==
                 IF ws > 0 /\ probe[ty] # WATER /\ probe[ty] # AIR THEN <<ws, ty>>
                 ELSE ShipwreckScan(probe, ty - 1, ws)
         IN Step(IF probe[ty] = WATER /\ waterSurface < 0 THEN ty ELSE waterSurface)

NoShipwreck == [writes |-> <<>>, loot |-> <<>>]

\* Variant: the depth test is dropped.
ShipwreckPlanNoDepthTest(probe, x, z) ==
    LET Plan(waterSurface, oceanFloor) ==
            IF oceanFloor < 0 \/ waterSurface < 0 THEN NoShipwreck
            ELSE [writes |-> << <<x, oceanFloor + 1, z, WOOD>>,
                                <<x, oceanFloor + 2, z - 3, GOLD_ORE>> >>,
                  loot |-> << LootChest(x, oceanFloor + 2, z - 3, "trident") >>]
        Scanned(scan) == Plan(scan[1], scan[2])
    IN Scanned(ShipwreckScan(probe, ScanTop, -1))

\* What tryGenerateShipwreck does for a probed column: its setBlock calls
\* (keel and treasure marker of the hull) and the loot record it pushes.
ShipwreckPlan(probe, x, z) ==
    LET Plan(waterSurface, oceanFloor) ==
            IF oceanFloor < 0 \/ waterSurface < 0 THEN NoShipwreck
            ELSE IF waterSurface - oceanFloor < ShipwreckMinDepth THEN NoShipwreck
            ELSE [writes |-> << <<x, oceanFloor + 1, z, WOOD>>,
                                <<x, oceanFloor + 2, z - 3, GOLD_ORE>> >>,
                  loot |-> << LootChest(x, oceanFloor + 2, z - 3, "trident") >>]
        Scanned(scan) == Plan(scan[1], scan[2])
    IN Scanned(ShipwreckScan(probe, ScanTop, -1))

\* The column of world.getBlock results the scan reads.
WorldColumn(w, x, z) == [ty \in 1..ScanTop |-> WorldGetBlock(w, x, ty, z)]

TryGenerateShipwreck(w, x, z) ==
    LET Do(plan) == [ApplyWrites(w, plan.writes) EXCEPT !.lootChests = @ \o plan.loot]
    IN Do(ShipwreckPlan(WorldColumn(w, x, z), x, z))

\* Variant: the set of processed keys is not consulted.
GenerateStructuresNoKeyTest(w, c) ==
    LET key == <<c.chunkX, c.chunkZ>>
        Place(w1) ==
            IF ShouldGenerateStructure(c.chunkX, c.chunkZ)
            THEN TryGenerateRuinedPortal(
                   TryGenerateShipwreck(w1, c.chunkX * CHUNK_SIZE + ProbeOffset,
                                        c.chunkZ * CHUNK_SIZE + ProbeOffset),
                   c.chunkX * CHUNK_SIZE + ProbeOffset,
                   c.chunkZ * CHUNK_SIZE + ProbeOffset)
            ELSE w1
    IN Place([w EXCEPT !.generatedStructures = @ \cup {key}])

GenerateStructures(w, c) ==
    LET key == <<c.chunkX, c.chunkZ>>
    IN IF key \in w.generatedStructures THEN w
       ELSE
         LET Place(w1) ==
                 IF ShouldGenerateStructure(c.chunkX, c.chunkZ)
                 THEN TryGenerateRuinedPortal(
                        TryGenerateShipwreck(w1, c.chunkX * CHUNK_SIZE + ProbeOffset,
                                             c.chunkZ * CHUNK_SIZE + ProbeOffset),
                        c.chunkX * CHUNK_SIZE + ProbeOffset,
                        c.chunkZ * CHUNK_SIZE + ProbeOffset)
                 ELSE w1
         IN Place([w EXCEPT !.generatedStructures = @ \cup {key}])

\* Rows and columns of the village, scaled: the default ground row and the
\* half-width of the flattened square (64 and 25 in the source).
VillageDefaultY == CHUNK_HEIGHT - 1
VillageRadius == 1

\* Ground probe of forceGenerateVillage: the topmost block of the centre
\* column that is neither air nor water, or the default row.
VillageGround(w, centerX, centerZ) ==
    LET Found(y) == IF y < 0 THEN VillageDefaultY ELSE y
    IN Found(FindGround(w, centerX, CHUNK_HEIGHT - 1, centerZ))

\* The setBlock calls that flatten one column: grass, dirt below, air above.
FlattenColumn(x, groundY, z) ==
    << <<x, groundY, z, GRASS>>, <<x, groundY - 1, z, DIRT>>, <<x, groundY + 1, z, AIR>> >>

\* The flatten loop: dx outer, dz inner.
FlattenWrites(centerX, groundY, centerZ) ==
    LET K == 2 * VillageRadius + 1
        Column(k) == FlattenColumn(centerX + ((k - 1) \div K) - VillageRadius, groundY,
                                   centerZ + ((k - 1) % K) - VillageRadius)
    IN [n \in 1..(3 * K * K) |-> Column(((n - 1) \div 3) + 1)[((n - 1) % 3) + 1]]

\* forceGenerateVillage: flatten the square around the centre, put the well
\* (its water block at the centre), push the village record.
ForceGenerateVillage(w, centerX, centerZ) ==
    LET Build(groundY) ==
            [ApplyWrites(w, FlattenWrites(centerX, groundY, centerZ)
                            \o << <<centerX, groundY, centerZ, WATER>> >>)
               EXCEPT !.villageLocations = Append(@, [x |-> centerX, z |-> centerZ])]
    IN Build(VillageGround(w, centerX, centerZ))

\* Variant: the flag is never set.
GenerateSpawnVillageNoFlag(w) ==
    IF w.spawnVillageGenerated THEN w
    ELSE ForceGenerateVillage(w, 0, 0)

GenerateSpawnVillage(w) ==
    IF w.spawnVillageGenerated THEN w
    ELSE ForceGenerateVillage([w EXCEPT !.spawnVillageGenerated = TRUE], 0, 0)

\* checkLootChest: index of the first record at the position, or 0.
RECURSIVE FindChest(_, _, _, _, _)
FindChest(chests, i, x, y, z) ==
    IF i > Len(chests) THEN 0
    ELSE IF chests[i].x = x /\ chests[i].y = y /\ chests[i].z = z THEN i
    ELSE FindChest(chests, i + 1, x, y, z)

RemoveAt(chests, i) == [k \in 1..(Len(chests) - 1) |-> IF k < i THEN chests[k] ELSE chests[k + 1]]

\* Variant: the record found is returned but stays in the registry.
CheckLootChestNoSplice(w, x, y, z) ==
    LET Found(i) ==
            IF i = 0 THEN [world |-> w, result |-> <<>>]
            ELSE [world |-> w, result |-> <<w.lootChests[i]>>]
    IN Found(FindChest(w.lootChests, 1, x, y, z))

\* checkLootChest: the world after the call and the value returned (<<>> for
\* null, <<chest>> for a chest).
CheckLootChest(w, x, y, z) ==
    LET Found(i) ==
            IF i = 0 THEN [world |-> w, result |-> <<>>]
            ELSE [world |-> [w EXCEPT !.lootChests = RemoveAt(@, i)],
                  result |-> <<w.lootChests[i]>>]
    IN Found(FindChest(w.lootChests, 1, x, y, z))

\* ----------------------------------------------------- Chunk.calculateAO
\* Variant: no full occlusion when both sides are solid.
CalculateAONoFullOcclusion(side1Block, side2Block, cornerBlock) ==
    LET side1 == IF Solid(side1Block) THEN 1 ELSE 0
        side2 == IF Solid(side2Block) THEN 1 ELSE 0
        corner == IF Solid(cornerBlock) THEN 1 ELSE 0
    IN 3 - (side1 + side2 + corner)

\* calculateAO for the blocks found at the offsets d1, d2 and d1 + d2.
CalculateAO(side1Block, side2Block, cornerBlock) ==
    LET side1 == IF Solid(side1Block) THEN 1 ELSE 0
        side2 == IF Solid(side2Block) THEN 1 ELSE 0
        corner == IF Solid(cornerBlock) THEN 1 ELSE 0
    IN IF side1 = 1 /\ side2 = 1 THEN 0
       ELSE 3 - (side1 + side2 + corner)

\* The level buildMesh takes for one corner of a face.
AoValue(isWater, side1Block, side2Block, cornerBlock) ==
    IF ~isWater THEN CalculateAO(side1Block, side2Block, cornerBlock) ELSE 3

\* ------------------------------------------------------- Chunk.buildMesh
\* DIRECTIONS: right, left, top, bottom, front, back.
DIRECTIONS == << <<1, 0, 0>>, <<-1, 0, 0>>, <<0, 1, 0>>, <<0, -1, 0>>,
                 <<0, 0, 1>>, <<0, 0, -1>> >>

\* The neighbour of local cell (x, y, z) of chunk c in direction d: across an
\* x/z edge it comes from the world lookup, above or below the height range
\* it is air, otherwise it is a cell of c.
NeighborBlock(c, w, x, y, z, d) ==
    LET nx == x + DIRECTIONS[d][1]
        ny == y + DIRECTIONS[d][2]
        nz == z + DIRECTIONS[d][3]
    IN IF nx < 0 \/ nx >= CHUNK_SIZE \/ nz < 0 \/ nz >= CHUNK_SIZE
       THEN WorldGetBlock(w, c.chunkX * CHUNK_SIZE + nx, ny, c.chunkZ * CHUNK_SIZE + nz)
       ELSE IF ny < 0 \/ ny >= CHUNK_HEIGHT THEN AIR
       ELSE ChunkGetBlock(c, nx, ny, nz)

\* Variant: a water face is not skipped against water.
FaceKeptNoWaterTest(blockType, neighborBlock) ==
    ~(Solid(neighborBlock) /\ ~Transparent(neighborBlock))

\* A face is skipped against a solid opaque neighbour, and a water face also
\* against water.
FaceKept(blockType, neighborBlock) ==
    IF blockType = WATER
    THEN neighborBlock # WATER /\ ~(Solid(neighborBlock) /\ ~Transparent(neighborBlock))
    ELSE ~(Solid(neighborBlock) /\ ~Transparent(neighborBlock))

\* The buffer a block's faces go to: none for air and torches, the water
\* buffer for water, the solid buffer for everything else.
GoesToBuffer(b, isWater) ==
    IF isWater THEN b = WATER ELSE b # AIR /\ b # TORCH /\ b # WATER

\* Faces <<x, y, z, d>> emitted into the water buffer (isWater) or the solid one.
FacesOf(c, w, isWater) ==
    {f \in (0..(CHUNK_SIZE - 1)) \X (0..(CHUNK_HEIGHT - 1)) \X (0..(CHUNK_SIZE - 1)) \X (1..6) :
        LET b == ChunkGetBlock(c, f[1], f[2], f[3])
        IN GoesToBuffer(b, isWater) /\ FaceKept(b, NeighborBlock(c, w, f[1], f[2], f[3], f[4]))}

\* DIRECTIONS[d].corners.
CORNERS ==
    << << <<1, 0, 0>>, <<1, 1, 0>>, <<1, 1, 1>>, <<1, 0, 1>> >>,
       << <<0, 0, 1>>, <<0, 1, 1>>, <<0, 1, 0>>, <<0, 0, 0>> >>,
       << <<0, 1, 1>>, <<1, 1, 1>>, <<1, 1, 0>>, <<0, 1, 0>> >>,
       << <<0, 0, 0>>, <<1, 0, 0>>, <<1, 0, 1>>, <<0, 0, 1>> >>,
       << <<0, 0, 1>>, <<1, 0, 1>>, <<1, 1, 1>>, <<0, 1, 1>> >>,
       << <<1, 0, 0>>, <<0, 0, 0>>, <<0, 1, 0>>, <<1, 1, 0>> >> >>

\* The position and index buffers of one target (solid or water).
NoBuffers == [positions |-> <<>>, indices |-> <<>>]

\* What one face pushes: three position numbers per corner, then six
\* indices based on the vertex count before the face.
EmitFace(buf, x, y, z, d) ==
    LET ndx == Len(buf.positions) \div 3
        cell == <<x, y, z>>
    IN [positions |-> buf.positions
                        \o [k \in 1..(3 * Len(CORNERS[d])) |->
                              cell[((k - 1) % 3) + 1]
                                + CORNERS[d][((k - 1) \div 3) + 1][((k - 1) % 3) + 1]],
        indices |-> buf.indices \o <<ndx, ndx + 1, ndx + 2, ndx, ndx + 2, ndx + 3>>]

\* The emission loop from step n on: cells in loop order (y, then z, then x),
\* for each cell the six directions. (The second test never holds; it reads
\* the buffer, so that each step is evaluated before the next one.)
RECURSIVE EmitFaces(_, _, _, _, _)
EmitFaces(c, w, isWater, n, buf) ==
    IF n >= 6 * NumBlocks \/ Len(buf.indices) < 0 THEN buf
    ELSE LET i == n \div 6
             d == (n % 6) + 1
         IN EmitFaces(c, w, isWater, n + 1,
                      IF /\ GoesToBuffer(c.blocks[i], isWater)
                         /\ FaceKept(c.blocks[i],
                                     NeighborBlock(c, w, IndexX(i), IndexY(i), IndexZ(i), d))
                      THEN EmitFace(buf, IndexX(i), IndexY(i), IndexZ(i), d)
                      ELSE buf)

\* The buffers buildMesh fills for the solid mesh or the water mesh.
MeshBuffers(c, w, isWater) == EmitFaces(c, w, isWater, 0, NoBuffers)

\* Torch cells in loop order (y, then z, then x), as world positions.
TorchPositionsOf(c) ==
    LET idx == [i \in 1..NumBlocks |-> i - 1]
        torchIdx == SelectSeq(idx, LAMBDA i : c.blocks[i] = TORCH)
    IN [k \in 1..Len(torchIdx) |->
          <<c.chunkX * CHUNK_SIZE + IndexX(torchIdx[k]), IndexY(torchIdx[k]),
            c.chunkZ * CHUNK_SIZE + IndexZ(torchIdx[k])>>]

\* Variant: buildMesh leaves needsRebuild set.
BuildMeshKeepsDirty(c, w) ==
    [c EXCEPT
       !.torchPositions = TorchPositionsOf(c),
       !.mesh = FacesOf(c, w, FALSE),
       !.waterMesh = FacesOf(c, w, TRUE),
       !.everMeshed = TRUE]

\* buildMesh: an empty buffer leaves the mesh null (the empty set here).
BuildMesh(c, w) ==
    [c EXCEPT
       !.torchPositions = TorchPositionsOf(c),
       !.mesh = FacesOf(c, w, FALSE),
       !.waterMesh = FacesOf(c, w, TRUE),
       !.needsRebuild = FALSE,
       !.everMeshed = TRUE]

\* ---------------------------------------------- World.rebuildChunkMesh
MAX_TORCH_LIGHTS == 20

\* An entry of the log of one updateChunks call: what was done (enqueue,
\* dequeue, generate, mesh, evict), to which chunk, the chunk's flags at that point,
\* whether the map held this instance, and the lights registered under its key.
Event(ev, c, id, pass, priority, resident, lights) ==
    [ev |-> ev, x |-> c.chunkX, z |-> c.chunkZ, inst |-> id, pass |-> pass,
     priority |-> priority, isGenerated |-> c.isGenerated,
     everMeshed |-> c.everMeshed, resident |-> resident, lights |-> lights]

SceneObject(kind, id) == [kind |-> kind, inst |-> id, x |-> 0, y |-> 0, z |-> 0]
Light(id, pos) == [kind |-> "light", inst |-> id, x |-> pos[1], y |-> pos[2], z |-> pos[3]]

SeqToSet(s) == {s[i] : i \in 1..Len(s)}

\* Scene objects currently held by the fields of chunk instance id.
ChunkSceneObjects(c, id) ==
    (IF c.mesh # {} THEN {SceneObject("mesh", id)} ELSE {})
    \cup (IF c.waterMesh # {} THEN {SceneObject("waterMesh", id)} ELSE {})
    \cup (IF c.torchGroup THEN {SceneObject("torchGroup", id)} ELSE {})

\* The lights registered under a chunk key, and the registry without the key.
LightsOf(tl, key) == IF key \in DOMAIN tl THEN SeqToSet(tl[key]) ELSE {}
DeleteKey(tl, key) == [k \in (DOMAIN tl) \ {key} |-> tl[k]]

RECURSIVE SumLengths(_, _)
SumLengths(tl, keys) ==
    IF keys = {} THEN 0
    ELSE LET k == CHOOSE k \in keys : TRUE
         IN Len(tl[k]) + SumLengths(tl, keys \ {k})

GetTotalTorchLights(tl) == SumLengths(tl, DOMAIN tl)

\* Removes the chunk's old scene objects and the lights registered under its
\* key, rebuilds the mesh against the current world, adds the new objects;
\* getTotalTorchLights does not count the lights created by this call, because
\* they are registered only after the loop.
RebuildChunkMesh(w, id, pass) ==
    LET old == w.heap[id]
        key == <<old.chunkX, old.chunkZ>>
        Register(built, hasTorches, lights1, newLights) ==
            [w EXCEPT
               !.heap[id] = IF hasTorches THEN [built EXCEPT !.torchGroup = TRUE]
                            ELSE built,
               !.scene = ((@ \ ChunkSceneObjects(old, id)) \ LightsOf(w.torchLights, key))
                         \cup (IF built.mesh # {} THEN {SceneObject("mesh", id)} ELSE {})
                         \cup (IF built.waterMesh # {} THEN {SceneObject("waterMesh", id)} ELSE {})
                         \cup (IF hasTorches THEN {SceneObject("torchGroup", id)} ELSE {})
                         \cup SeqToSet(newLights),
               !.torchLights = IF Len(newLights) > 0
                               THEN [k \in (DOMAIN lights1) \cup {key} |->
                                       IF k = key THEN newLights ELSE lights1[k]]
                               ELSE lights1,
               !.events = Append(@, Event("mesh", old, id, pass, 0,
                                          GetChunk(w, old.chunkX, old.chunkZ) = id,
                                          Cardinality(LightsOf(w.torchLights, key))))]
        Torches(built, hasTorches, lights1) ==
            Register(built, hasTorches, lights1,
                     IF hasTorches /\ GetTotalTorchLights(lights1) < MAX_TORCH_LIGHTS
                     THEN [k \in 1..Len(built.torchPositions) |->
                             Light(id, built.torchPositions[k])]
                     ELSE <<>>)
        Built(built) ==
            Torches(built, Len(built.torchPositions) > 0, DeleteKey(w.torchLights, key))
    IN Built(BuildMesh(old, w))

\* ---------------------------------------------------- World.updateChunks
chunksPerFrame == 2
rebuildsPerFrame == 4

\* The enqueue loop: dx outer, dz inner, an entry for every key not in the map.
EnqueueCandidates(renderDistance, currentChunkX, currentChunkZ) ==
    LET K == 2 * renderDistance + 1
    IN [k \in 1..(K * K) |->
          LET dx == ((k - 1) \div K) - renderDistance
              dz == ((k - 1) % K) - renderDistance
          IN [x |-> currentChunkX + dx, z |-> currentChunkZ + dz,
              priority |-> dx * dx + dz * dz]]

Enqueued(w, currentChunkX, currentChunkZ) ==
    SelectSeq(EnqueueCandidates(w.renderDistance, currentChunkX, currentChunkZ),
              LAMBDA e : ~HasChunk(w, e.x, e.z))

\* Variant: the queue is left in push order.
SortByPriorityNoSort(q) == q

\* Array.prototype.sort with (a, b) => a.priority - b.priority: a stable
\* ascending sort. Entry i goes to the position given by the number of entries
\* of lower priority plus the number of equal entries up to and including i.
SortByPriority(q) ==
    LET rank == [i \in 1..Len(q) |->
                   Cardinality({j \in 1..Len(q) :
                                  \/ q[j].priority < q[i].priority
                                  \/ q[j].priority = q[i].priority /\ j <= i})]
    IN [k \in 1..Len(q) |-> q[CHOOSE i \in 1..Len(q) : rank[i] = k]]

\* A fresh object identity: the least id no live object uses.
FreshId(w) == CHOOSE i \in 1..(Cardinality(DOMAIN w.heap) + 1) : i \notin DOMAIN w.heap

\* Variant: the structure generator is called in either dimension.
GenerateOneAnyDimension(w, x, z, clay) ==
    LET Insert(id, generated, w1) ==
            [w1 EXCEPT
               !.heap = [i \in (DOMAIN w1.heap) \cup {id} |->
                           IF i = id THEN generated ELSE w1.heap[i]],
               !.chunks = Append(@, id),
               !.chunksToRebuild = Append(@, id),
               !.events = Append(@, Event("generate", generated, id, 0, 0, TRUE, 0))]
        Generated(chunk) == Insert(FreshId(w), chunk, GenerateStructures(w, chunk))
    IN Generated(IF w.currentDimension = "end" THEN EndGenerateChunk(NewChunk(x, z))
                 ELSE TerrainGenerateChunk(NewChunk(x, z), clay))

\* Body of the generation loop for one dequeued entry that is not resident.
GenerateOne(w, x, z, clay) ==
    LET Insert(id, generated, w1) ==
            [w1 EXCEPT
               !.heap = [i \in (DOMAIN w1.heap) \cup {id} |->
                           IF i = id THEN generated ELSE w1.heap[i]],
               !.chunks = Append(@, id),
               !.chunksToRebuild = Append(@, id),
               !.events = Append(@, Event("generate", generated, id, 0, 0, TRUE, 0))]
        Generated(chunk) ==
            Insert(FreshId(w), chunk,
                   IF w.currentDimension = "end" THEN w
                   ELSE GenerateStructures(w, chunk))
    IN Generated(IF w.currentDimension = "end" THEN EndGenerateChunk(NewChunk(x, z))
                 ELSE TerrainGenerateChunk(NewChunk(x, z), clay))

RECURSIVE GenerateLoop(_, _, _)
GenerateLoop(w, i, clay) ==
    IF i < chunksPerFrame /\ Len(w.chunksToGenerate) > 0
    THEN LET e == Head(w.chunksToGenerate)
             w1 == [w EXCEPT
                      !.chunksToGenerate = Tail(@),
                      !.events = Append(@, Event("dequeue", NewChunk(e.x, e.z), 0, 0,
                                                 e.priority, HasChunk(w, e.x, e.z), 0))]
         IN GenerateLoop(IF ~HasChunk(w1, e.x, e.z) THEN GenerateOne(w1, e.x, e.z, clay)
                         ELSE w1,
                         i + 1, clay)
    ELSE w

\* Variant: the local `rebuilds` counter is never incremented.
RebuildsNeverCounted(w) == 0

\* Number of mesh builds logged so far in this call (the local `rebuilds`).
Rebuilds(w) == Cardinality({i \in 1..Len(w.events) : w.events[i].ev = "mesh"})

\* First pass: the chunks of the map, in insertion order.
RECURSIVE RebuildResident(_, _)
RebuildResident(w, i) ==
    IF i > Len(w.chunks) THEN w
    ELSE LET id == w.chunks[i]
             c == w.heap[id]
         IN RebuildResident(
              IF c.needsRebuild /\ c.isGenerated /\ Rebuilds(w) < rebuildsPerFrame
              THEN RebuildChunkMesh(w, id, 1) ELSE w,
              i + 1)

\* Variant: a popped chunk is rebuilt whatever its needsRebuild flag.
RECURSIVE RebuildQueuedNoFlagTest(_)
RebuildQueuedNoFlagTest(w) ==
    IF Len(w.chunksToRebuild) > 0 /\ Rebuilds(w) < rebuildsPerFrame
    THEN LET id == Head(w.chunksToRebuild)
             w1 == [w EXCEPT !.chunksToRebuild = Tail(@)]
         IN RebuildQueuedNoFlagTest(RebuildChunkMesh(w1, id, 2))
    ELSE w

\* Second pass: the rebuild queue.
RECURSIVE RebuildQueued(_)
RebuildQueued(w) ==
    IF Len(w.chunksToRebuild) > 0 /\ Rebuilds(w) < rebuildsPerFrame
    THEN LET id == Head(w.chunksToRebuild)
             w1 == [w EXCEPT !.chunksToRebuild = Tail(@)]
         IN RebuildQueued(IF w1.heap[id].needsRebuild
                          THEN RebuildChunkMesh(w1, id, 2) ELSE w1)
    ELSE w

\* Unload: every chunk of the map farther than renderDistance + 2.
\* Variant: the eviction margin is 3 instead of 2.
TooFarMargin3(c, currentChunkX, currentChunkZ, renderDistance) ==
    LET dx == c.chunkX - currentChunkX
        dz == c.chunkZ - currentChunkZ
        unloadDistance == renderDistance + 3
    IN dx * dx + dz * dz > unloadDistance * unloadDistance

TooFar(c, currentChunkX, currentChunkZ, renderDistance) ==
    LET dx == c.chunkX - currentChunkX
        dz == c.chunkZ - currentChunkZ
        unloadDistance == renderDistance + 2
    IN dx * dx + dz * dz > unloadDistance * unloadDistance

RECURSIVE Unload(_, _, _, _)
Unload(w, todo, currentChunkX, currentChunkZ) ==
    IF todo = <<>> THEN w
    ELSE LET id == Head(todo)
             c == w.heap[id]
             key == <<c.chunkX, c.chunkZ>>
         IN Unload(
              IF TooFar(c, currentChunkX, currentChunkZ, w.renderDistance)
              THEN [w EXCEPT
                      !.scene = (@ \ ChunkSceneObjects(c, id)) \ LightsOf(w.torchLights, key),
                      !.torchLights = DeleteKey(@, key),
                      !.heap[id].disposed = TRUE,
                      !.chunks = SelectSeq(@, LAMBDA j : j # id),
                      !.events = Append(@, Event("evict", c, id, 0, 0, TRUE,
                                                 Cardinality(LightsOf(w.torchLights, key))))]
              ELSE w,
              Tail(todo), currentChunkX, currentChunkZ)

\* Objects no field, queue or scene entry refers to any more are dropped.
Collect(w) ==
    LET live == SeqToSet(w.chunks) \cup SeqToSet(w.chunksToRebuild)
                \cup {o.inst : o \in w.scene}
    IN [w EXCEPT !.heap = [i \in (DOMAIN w.heap) \cap live |-> w.heap[i]]]

UpdateChunks(w, playerX, playerZ, clay) ==
    LET currentChunkX == FloorDiv(playerX, CHUNK_SIZE)
        currentChunkZ == FloorDiv(playerZ, CHUNK_SIZE)
        Push(pushed) ==
            [w EXCEPT
               !.chunksToGenerate = SortByPriority(@ \o pushed),
               !.events = [k \in 1..Len(pushed) |->
                             Event("enqueue", NewChunk(pushed[k].x, pushed[k].z), 0, 0,
                                   pushed[k].priority, FALSE, 0)]]
        UnloadFar(w4) == Unload(w4, w4.chunks, currentChunkX, currentChunkZ)
    IN Collect(UnloadFar(RebuildQueued(RebuildResident(
           GenerateLoop(Push(Enqueued(w, currentChunkX, currentChunkZ)), 0, clay), 1))))

\* --------------------------------------------------------- World.raycast
\* Coordinates of a ray are in tenths of a block: the march step 0.1 is one
\* tenth, and a direction is a unit vector along an axis, which normalize()
\* leaves as it is. The number of samples stays below ten, so that every
\* sample position is exact in the source's floating point as well.
RayScale == 10
MaxRaySteps == 8

Abs(a) == IF a < 0 THEN -a ELSE a
\* Math.sign
Sign(a) == IF a > 0 THEN 1 ELSE IF a < 0 THEN -1 ELSE 0

\* The normal chosen from the offset of the sample from the voxel centre.
RayNormal(diff) ==
    IF Abs(diff[1]) > Abs(diff[2]) /\ Abs(diff[1]) > Abs(diff[3]) THEN <<Sign(diff[1]), 0, 0>>
    ELSE IF Abs(diff[2]) > Abs(diff[3]) THEN <<0, Sign(diff[2]), 0>>
    ELSE <<0, 0, Sign(diff[3])>>

NoHit == [hit |-> FALSE, position |-> <<>>, normal |-> <<>>, blockPos |-> <<>>]

\* The march loop from sample k on.
RECURSIVE March(_, _, _, _, _)
March(w, origin, dir, k, maxDistance) ==
    IF k >= maxDistance THEN NoHit
    ELSE LET Sample(pos, b) ==
                 IF WorldGetBlock(w, b[1], b[2], b[3]) # AIR
                    /\ Solid(WorldGetBlock(w, b[1], b[2], b[3]))
                 THEN [hit |-> TRUE, position |-> pos,
                       normal |-> RayNormal([i \in 1..3 |->
                                    pos[i] - (b[i] * RayScale + RayScale \div 2)]),
                       blockPos |-> b]
                 ELSE March(w, origin, dir, k + 1, maxDistance)
             At(pos) == Sample(pos, [i \in 1..3 |-> FloorDiv(pos[i], RayScale)])
         IN At([i \in 1..3 |-> origin[i] + dir[i] * k])

Raycast(w, origin, direction, maxDistance) == March(w, origin, direction, 0, maxDistance)

\* -------------------------------------------- Inventory, CraftingSystem
\* null: an empty grid cell, an empty inventory slot, no recipe result.
NoItem == "null"
EmptySlot == [type |-> NoItem, count |-> 0]
NoResult == [type |-> NoItem, count |-> 0]

\* getMaxStack for blocks and for the stackable items.
MaxStack == 64
GetMaxStack(type) == MaxStack

Min(a, b) == IF a < b THEN a ELSE b

\* addItem, second loop from slot i on: fill empty slots.
RECURSIVE FillEmptySlots(_, _, _, _)
FillEmptySlots(slots, i, type, remaining) ==
    IF i > Len(slots) THEN [slots |-> slots, remaining |-> remaining]
    ELSE IF slots[i].type = NoItem
         THEN IF remaining - Min(remaining, GetMaxStack(type)) <= 0
              THEN [slots |-> [slots EXCEPT ![i] = [type |-> type,
                                                    count |-> Min(remaining,
                                                                  GetMaxStack(type))]],
                    remaining |-> 0]
              ELSE FillEmptySlots(
                     [slots EXCEPT ![i] = [type |-> type,
                                           count |-> Min(remaining, GetMaxStack(type))]],
                     i + 1, type, remaining - Min(remaining, GetMaxStack(type)))
         ELSE FillEmptySlots(slots, i + 1, type, remaining)

\* addItem, first loop from slot i on: top up stacks of the same type; then
\* the second loop, unless the first one returned.
RECURSIVE AddItemFrom(_, _, _, _)
AddItemFrom(slots, i, type, remaining) ==
    IF i > Len(slots) THEN FillEmptySlots(slots, 1, type, remaining)
    ELSE IF slots[i].type = type /\ slots[i].count < GetMaxStack(type)
         THEN LET canAdd == Min(remaining, GetMaxStack(type) - slots[i].count)
              IN IF remaining - canAdd <= 0
                 THEN [slots |-> [slots EXCEPT ![i].count = @ + canAdd], remaining |-> 0]
                 ELSE AddItemFrom([slots EXCEPT ![i].count = @ + canAdd], i + 1, type,
                                  remaining - canAdd)
         ELSE AddItemFrom(slots, i + 1, type, remaining)

\* addItem(type, count): the slots after the call and the value returned.
AddItem(slots, type, count) == AddItemFrom(slots, 1, type, count)

\* RECIPES, the shaped recipes over wood, planks and sticks, in source order.
RECIPES ==
    << [pattern |-> << <<"block_6">> >>, result |-> [type |-> "block_17", count |-> 4]],
       [pattern |-> << <<"block_17">>, <<"block_17">> >>,
        result |-> [type |-> "stick", count |-> 4]],
       [pattern |-> << <<"block_17", "block_17">>, <<"block_17", "block_17">> >>,
        result |-> [type |-> "crafting_table", count |-> 1]] >>

\* normalizePattern: the bounding box of the non-null cells, <<>> if none.
NormalizePattern(pattern) ==
    LET cells == {c \in (1..Len(pattern)) \X (1..Len(pattern[1])) :
                    pattern[c[1]][c[2]] # NoItem}
        Box(minY, maxY, minX, maxX) ==
            [y \in 1..(maxY - minY + 1) |->
               [x \in 1..(maxX - minX + 1) |-> pattern[minY + y - 1][minX + x - 1]]]
    IN IF cells = {} THEN <<>>
       ELSE Box(CHOOSE y \in {c[1] : c \in cells} : \A c \in cells : y <= c[1],
                CHOOSE y \in {c[1] : c \in cells} : \A c \in cells : y >= c[1],
                CHOOSE x \in {c[2] : c \in cells} : \A c \in cells : x <= c[2],
                CHOOSE x \in {c[2] : c \in cells} : \A c \in cells : x >= c[2])

\* patternsMatch: equal as given or flipped horizontally.
PatternsMatch(grid, recipe) ==
    /\ Len(grid) = Len(recipe)
    /\ Len(grid) # 0
    /\ Len(grid[1]) = Len(recipe[1])
    /\ \/ \A y \in 1..Len(grid) : \A x \in 1..Len(grid[y]) : grid[y][x] = recipe[y][x]
       \/ \A y \in 1..Len(grid) : \A x \in 1..Len(grid[y]) :
             grid[y][x] = recipe[y][Len(grid[y]) + 1 - x]

\* checkRecipe: the result of the first recipe that fits the grid size and
\* matches the normalised grid, or null.
CheckRecipe(grid, gridSize) ==
    LET Search(normalizedGrid) ==
            LET hits == {r \in 1..Len(RECIPES) :
                           /\ Len(RECIPES[r].pattern) <= gridSize
                           /\ Len(RECIPES[r].pattern[1]) <= gridSize
                           /\ PatternsMatch(normalizedGrid, RECIPES[r].pattern)}
            IN IF normalizedGrid = <<>> \/ hits = {} THEN NoResult
               ELSE RECIPES[CHOOSE r \in hits : \A q \in hits : r <= q].result
    IN Search(NormalizePattern(grid))

\* craft(inventory) with this.result as setSlot left it (checkRecipe of the
\* grid): the value returned, the grid and the inventory slots after the call.
Craft(grid, gridSize, slots) ==
    LET Add(added) ==
            IF added.remaining > 0
            THEN [returned |-> FALSE, grid |-> grid, slots |-> added.slots]
            ELSE [returned |-> TRUE,
                  grid |-> [y \in 1..gridSize |-> [x \in 1..gridSize |-> NoItem]],
                  slots |-> added.slots]
        With(result) ==
            IF result = NoResult
            THEN [returned |-> FALSE, grid |-> grid, slots |-> slots]
            ELSE Add(AddItem(slots, result.type, result.count))
    IN With(CheckRecipe(grid, gridSize))

\* --------------------------------------------------- World.setDimension
RECURSIVE ClearChunks(_, _)
ClearChunks(w, todo) ==
    IF todo = <<>> THEN w
    ELSE LET id == Head(todo)
             c == w.heap[id]
             key == <<c.chunkX, c.chunkZ>>
         IN ClearChunks(
              [w EXCEPT
                 !.scene = (@ \ ChunkSceneObjects(c, id)) \ LightsOf(w.torchLights, key),
                 !.torchLights = DeleteKey(@, key),
                 !.heap[id].disposed = TRUE],
              Tail(todo))

WorldSetDimension(w, dimension) ==
    IF w.currentDimension = dimension THEN w
    ELSE Collect([ClearChunks(w, w.chunks) EXCEPT
                    !.chunks = <<>>,
                    !.chunksToGenerate = <<>>,
                    !.chunksToRebuild = <<>>,
                    !.currentDimension = dimension])

\* ================================================================= state
VARIABLES
    chunks,              \* World.chunks: instance ids in insertion order
    heap,                \* the Chunk objects
    chunksToGenerate,    \* World.chunksToGenerate
    chunksToRebuild,     \* World.chunksToRebuild: instance ids
    scene,               \* objects added to the THREE.Scene
    torchLights,         \* World.torchLights: chunk key -> lights
    currentDimension,    \* World.currentDimension
    generatedStructures, \* StructureGenerator.generatedStructures
    lootChests,          \* StructureGenerator.lootChests
    villageLocations,    \* StructureGenerator.villageLocations
    spawnVillageGenerated, \* StructureGenerator.spawnVillageGenerated
    events,              \* log of the last updateChunks call
    observer,            \* chunk coordinate passed to the last updateChunks
    lastGet,             \* arguments and result of the last getBlock query
    lastCall,            \* operation, arguments and result of the last other query
    ticks, edits, switches, calls

vars == <<chunks, heap, chunksToGenerate, chunksToRebuild, scene, torchLights,
          currentDimension, generatedStructures, lootChests, villageLocations,
          spawnVillageGenerated, events, observer, lastGet, lastCall,
          ticks, edits, switches, calls>>

worldVars == <<chunks, heap, chunksToGenerate, chunksToRebuild, scene, torchLights,
               currentDimension, generatedStructures, lootChests, villageLocations,
               spawnVillageGenerated>>

\* The world as one value, for the operators above. renderDistance is the
\* constructor argument; no method assigns it.
W == [renderDistance |-> RenderDistance, chunks |-> chunks, heap |-> heap, chunksToGenerate |-> chunksToGenerate,
      chunksToRebuild |-> chunksToRebuild, scene |-> scene,
      torchLights |-> torchLights, currentDimension |-> currentDimension,
      generatedStructures |-> generatedStructures, lootChests |-> lootChests,
      villageLocations |-> villageLocations,
      spawnVillageGenerated |-> spawnVillageGenerated, events |-> events]

Install(w) ==
    /\ chunks' = w.chunks
    /\ heap' = w.heap
    /\ chunksToGenerate' = w.chunksToGenerate
    /\ chunksToRebuild' = w.chunksToRebuild
    /\ scene' = w.scene
    /\ torchLights' = w.torchLights
    /\ currentDimension' = w.currentDimension
    /\ generatedStructures' = w.generatedStructures
    /\ lootChests' = w.lootChests
    /\ villageLocations' = w.villageLocations
    /\ spawnVillageGenerated' = w.spawnVillageGenerated
    /\ events' = w.events

\* ---------------------------------------------------------------- inputs
\* Observer positions: the origin chunk, a chunk from which part of the
\* origin's neighbourhood is out of range, and one from which all of it is.
MidChunk == RenderDistance + 2
FarChunk == 2 * RenderDistance + 3
PlayerXs == {0, MidChunk * CHUNK_SIZE, FarChunk * CHUNK_SIZE}
PlayerZs == {0}

\* Edits of the streaming specification: a corner cell of chunk (0,0) and a
\* cell on the z edge of chunk (-1,0).
StreamEdits == {<<0, CHUNK_HEIGHT - 1, 0, AIR>>, <<0, CHUNK_HEIGHT - 1, 0, TORCH>>,
                <<-1, CHUNK_HEIGHT - 1, 0, STONE>>}

\* Edits of the block-edit specification: the last column of chunk -1, the
\* first (edge) and second (interior) column of chunk 0, the first column of
\* chunk 1, a column of a chunk that is never resident; rows in, below and
\* above the height range.
SetXs == {-1, 0, 1, CHUNK_SIZE, FarChunk * CHUNK_SIZE}
SetYs == {-1, CHUNK_HEIGHT - 1, CHUNK_HEIGHT}
SetZs == {0, 1}
SetTypes == {AIR, STONE, TORCH}
EditPlayerXs == {-1, 0}

\* Queried cells: columns of chunks -1, 0 and of a chunk that is never
\* resident; rows below, in and above the height range.
GetXs == {-1, 0, FarChunk * CHUNK_SIZE}
GetYs == {-1, CHUNK_HEIGHT - 1, CHUNK_HEIGHT}
GetZs == {0}

Dimensions == {"overworld", "end"}

NoGet == <<>>
NoCall == [op |-> "none", args |-> <<>>, result |-> <<>>]

\* new World(scene, renderDistance) together with its StructureGenerator.
NewWorld(renderDistance) ==
    [renderDistance |-> renderDistance, chunks |-> <<>>,
     heap |-> [i \in {} |-> NewChunk(0, 0)],
     chunksToGenerate |-> <<>>, chunksToRebuild |-> <<>>, scene |-> {},
     torchLights |-> [k \in {} |-> <<>>], currentDimension |-> "overworld",
     generatedStructures |-> {}, lootChests |-> <<>>, villageLocations |-> <<>>,
     spawnVillageGenerated |-> FALSE, events |-> <<>>]

\* ------------------------------------------------------------------ Init
Init ==
    /\ chunks = <<>>
    /\ heap = [i \in {} |-> NewChunk(0, 0)]
    /\ chunksToGenerate = <<>>
    /\ chunksToRebuild = <<>>
    /\ scene = {}
    /\ torchLights = [k \in {} |-> <<>>]
    /\ currentDimension = "overworld"
    /\ generatedStructures = {}
    /\ lootChests = <<>>
    /\ villageLocations = <<>>
    /\ spawnVillageGenerated = FALSE
    /\ events = <<>>
    /\ observer = <<0, 0>>
    /\ lastGet = NoGet
    /\ lastCall = NoCall
    /\ ticks = 0
    /\ edits = 0
    /\ switches = 0
    /\ calls = 0

\* --------------------------------------------------------------- actions
\* updateChunks; the outcome of its Math.random() test is any of the two.
Update(playerX, playerZ) ==
    /\ \E clay \in BOOLEAN : Install(UpdateChunks(W, playerX, playerZ, clay))
    /\ observer' = <<FloorDiv(playerX, CHUNK_SIZE), FloorDiv(playerZ, CHUNK_SIZE)>>
    /\ ticks' = ticks + 1
    /\ lastGet' = NoGet
    /\ lastCall' = NoCall
    /\ UNCHANGED <<edits, switches, calls>>

SetBlock(x, y, z, type) ==
    /\ Install([WorldSetBlock(W, x, y, z, type) EXCEPT !.events = <<>>])
    /\ edits' = edits + 1
    /\ lastGet' = NoGet
    /\ lastCall' = NoCall
    /\ UNCHANGED <<observer, ticks, switches, calls>>

GetBlock(x, y, z) ==
    /\ lastGet' = <<x, y, z, WorldGetBlock(W, x, y, z)>>
    /\ lastCall' = NoCall
    /\ UNCHANGED <<worldVars, events, observer, ticks, edits, switches, calls>>

SetDimension(dimension) ==
    /\ Install([WorldSetDimension(W, dimension) EXCEPT !.events = <<>>])
    /\ switches' = switches + 1
    /\ lastGet' = NoGet
    /\ lastCall' = NoCall
    /\ UNCHANGED <<observer, ticks, edits, calls>>

\* The calls below record the operation, its arguments (integers) and what
\* it returned (a sequence holding at most one record; <<>> for null or void).
\* generateStructures(chunk) for a chunk object of the given coordinate. The
\* result slot records whether the key had been processed before the call.
Stamp(cx, cz) ==
    /\ Install([GenerateStructures(W, NewChunk(cx, cz)) EXCEPT !.events = <<>>])
    /\ lastCall' = [op |-> "generateStructures", args |-> <<cx, cz>>,
                    result |-> << [processedBefore |-> <<cx, cz>> \in generatedStructures] >>]
    /\ calls' = calls + 1
    /\ lastGet' = NoGet
    /\ UNCHANGED <<observer, ticks, edits, switches>>

\* generateSpawnVillage(). The result slot records the flag before the call.
SpawnVillage ==
    /\ Install([GenerateSpawnVillage(W) EXCEPT !.events = <<>>])
    /\ lastCall' = [op |-> "generateSpawnVillage", args |-> <<>>,
                    result |-> << [generatedBefore |-> spawnVillageGenerated] >>]
    /\ calls' = calls + 1
    /\ lastGet' = NoGet
    /\ UNCHANGED <<observer, ticks, edits, switches>>

\* checkLootChest(x, y, z).
ClaimLoot(x, y, z) ==
    /\ Install([CheckLootChest(W, x, y, z).world EXCEPT !.events = <<>>])
    /\ lastCall' = [op |-> "checkLootChest", args |-> <<x, y, z>>,
                    result |-> CheckLootChest(W, x, y, z).result]
    /\ calls' = calls + 1
    /\ lastGet' = NoGet
    /\ UNCHANGED <<observer, ticks, edits, switches>>

\* raycast(origin, direction, maxDistance); args holds origin and direction.
RayCast(origin, direction) ==
    /\ lastCall' = [op |-> "raycast", args |-> origin \o direction,
                    result |-> << Raycast(W, origin, direction, MaxRaySteps) >>]
    /\ UNCHANGED <<worldVars, events, observer, lastGet, ticks, edits, switches, calls>>

\* tryGenerateShipwreck(0, 0) over a column whose probes return probe.
Shipwreck(probe) ==
    /\ lastCall' = [op |-> "tryGenerateShipwreck", args |-> probe,
                    result |-> << ShipwreckPlan(probe, 0, 0) >>]
    /\ calls' = calls + 1
    /\ UNCHANGED <<worldVars, events, observer, lastGet, ticks, edits, switches>>

\* generateChunk on two fresh chunks of one coordinate, each call with its
\* own outcome of the Math.random() test.
GenerateChunkTwice(cx, cz, clay1, clay2) ==
    /\ lastCall' = [op |-> "generateChunk", args |-> <<cx, cz>>,
                    result |-> << [first |-> TerrainGenerateChunk(NewChunk(cx, cz), clay1).blocks,
                                   second |-> TerrainGenerateChunk(NewChunk(cx, cz), clay2).blocks] >>]
    /\ calls' = calls + 1
    /\ UNCHANGED <<worldVars, events, observer, lastGet, ticks, edits, switches>>

\* The AO level of one face corner; args holds the three neighbour blocks and
\* 1 for a water face, 0 for any other.
AmbientOcclusion(isWater, side1Block, side2Block, cornerBlock) ==
    /\ lastCall' = [op |-> "calculateAO",
                    args |-> <<side1Block, side2Block, cornerBlock, IF isWater THEN 1 ELSE 0>>,
                    result |-> << [level |-> AoValue(isWater, side1Block, side2Block,
                                                    cornerBlock)] >>]
    /\ calls' = calls + 1
    /\ UNCHANGED <<worldVars, events, observer, lastGet, ticks, edits, switches>>

\* buildMesh on a chunk (0,0) that holds block a in cell (0,0,0), block b in
\* the cell above it and air elsewhere, with a neighbour lookup that answers
\* from a generated chunk (-1,0) holding block n next to b and air elsewhere.
MeshChunk(a, b) ==
    [NewChunk(0, 0) EXCEPT
       !.blocks[GetBlockIndex(0, 0, 0)] = a,
       !.blocks[GetBlockIndex(0, CHUNK_HEIGHT - 1, 0)] = b,
       !.isGenerated = TRUE]
MeshNeighbor(n) ==
    [NewChunk(-1, 0) EXCEPT
       !.blocks[GetBlockIndex(CHUNK_SIZE - 1, CHUNK_HEIGHT - 1, 0)] = n,
       !.isGenerated = TRUE]
MeshWorld(a, b, n) == [chunks |-> <<1, 2>>, heap |-> <<MeshChunk(a, b), MeshNeighbor(n)>>]

BuildMeshCall(a, b, n) ==
    /\ lastCall' = [op |-> "buildMesh", args |-> <<a, b, n>>,
                    result |-> << [mesh |-> BuildMesh(MeshChunk(a, b), MeshWorld(a, b, n)).mesh,
                                   waterMesh |-> BuildMesh(MeshChunk(a, b),
                                                           MeshWorld(a, b, n)).waterMesh,
                                   solid |-> MeshBuffers(MeshChunk(a, b), MeshWorld(a, b, n),
                                                         FALSE),
                                   water |-> MeshBuffers(MeshChunk(a, b), MeshWorld(a, b, n),
                                                         TRUE)] >>]
    /\ calls' = calls + 1
    /\ UNCHANGED <<worldVars, events, observer, lastGet, ticks, edits, switches>>

\* The coordinate translation getBlock and setBlock make for one axis, for
\* two world coordinates.
Translate(w1, w2) ==
    /\ lastCall' = [op |-> "translate", args |-> <<w1, w2>>,
                    result |-> << [chunk1 |-> ChunkCoord(w1), local1 |-> LocalCoord(w1),
                                   chunk2 |-> ChunkCoord(w2), local2 |-> LocalCoord(w2)] >>]
    /\ calls' = calls + 1
    /\ UNCHANGED <<worldVars, events, observer, lastGet, ticks, edits, switches>>

\* The first updateChunks(0, 0) of a world constructed with the given render
\* distance; the result holds the log of the call.
FirstUpdate(renderDistance, clay) ==
    /\ lastCall' = [op |-> "updateChunks", args |-> <<renderDistance>>,
                    result |-> << [log |-> UpdateChunks(NewWorld(renderDistance), 0, 0,
                                                        clay).events] >>]
    /\ calls' = calls + 1
    /\ UNCHANGED <<worldVars, events, observer, lastGet, ticks, edits, switches>>

\* craft(inventory) on a crafting grid and an inventory; the result slot
\* holds both before the call, what the call returned and both after it.
CraftCall(grid, slots) ==
    /\ lastCall' = [op |-> "craft", args |-> <<>>,
                    result |-> << [gridBefore |-> grid, slotsBefore |-> slots,
                                   recipe |-> CheckRecipe(grid, GridSize),
                                   returned |-> Craft(grid, GridSize, slots).returned,
                                   grid |-> Craft(grid, GridSize, slots).grid,
                                   slots |-> Craft(grid, GridSize, slots).slots] >>]
    /\ calls' = calls + 1
    /\ UNCHANGED <<worldVars, events, observer, lastGet, ticks, edits, switches>>

\* ------------------------------------------------ streaming specification
Tick == ticks < MaxTicks /\ \E playerX \in PlayerXs, playerZ \in PlayerZs : Update(playerX, playerZ)
Edit == edits < MaxEdits /\ \E e \in StreamEdits : SetBlock(e[1], e[2], e[3], e[4])
Switch == switches < MaxSwitches /\ \E dimension \in Dimensions : SetDimension(dimension)

Next == Tick \/ Edit \/ Switch

Spec == Init /\ [][Next]_vars

\* ----------------------------------------------- block-edit specification
EditTick == ticks < EditTicks /\ \E playerX \in EditPlayerXs : Update(playerX, 0)
EditSet ==
    edits < EditEdits /\ \E x \in SetXs, y \in SetYs, z \in SetZs, type \in SetTypes :
                            SetBlock(x, y, z, type)

NextEdit == EditTick \/ EditSet

SpecEdit == Init /\ [][NextEdit]_vars

\* ---------------------------------------------- block-query specification
QueryTick == ticks < QueryTicks /\ \E playerX \in EditPlayerXs : Update(playerX, 0)
QuerySet == edits < QueryEdits /\ \E e \in StreamEdits : SetBlock(e[1], e[2], e[3], e[4])
QueryGet == \E x \in GetXs, y \in GetYs, z \in GetZs : GetBlock(x, y, z)

NextQuery == QueryTick \/ QuerySet \/ QueryGet

SpecQuery == Init /\ [][NextQuery]_vars

\* ------------------------------------------------ structure specification
\* The observer at chunk (0,0) or (2,0); edits that put a stone block on the
\* probed column of either chunk; the structure generator called for either
\* chunk; the loot positions of their ruined portals and a position that
\* never holds loot.
StructPlayerXs == {0, 2 * CHUNK_SIZE}
StructChunkXs == {0, 2}
ProbeX(cx) == cx * CHUNK_SIZE + ProbeOffset
PortalChest(cx, y) == <<ProbeX(cx) + 1, y + 1, ProbeOffset - 1>>
LootPositions == {PortalChest(cx, CHUNK_HEIGHT - 1) : cx \in StructChunkXs} \cup {<<0, 0, 0>>}

StructTick == ticks < StructTicks /\ \E playerX \in StructPlayerXs : Update(playerX, 0)
StructEdit ==
    /\ edits < StructEdits
    /\ \E cx \in StructChunkXs : SetBlock(ProbeX(cx), CHUNK_HEIGHT - 1, ProbeOffset, STONE)
StructSwitch == switches < StructSwitches /\ SetDimension("end")
StructStamp == calls < StructCalls /\ \E cx \in StructChunkXs : Stamp(cx, 0)
StructVillage == calls < StructCalls /\ SpawnVillage
StructClaim == calls < StructCalls /\ \E p \in LootPositions : ClaimLoot(p[1], p[2], p[3])

NextStruct ==
    StructTick \/ StructEdit \/ StructSwitch \/ StructStamp \/ StructVillage \/ StructClaim

SpecStruct == Init /\ [][NextStruct]_vars

\* ------------------------------------------------- raycast specification
\* Chunk (0,0) and its neighbours loaded, a stone block put on top of the
\* corner column (0,0); rays from block corners, edge midpoints and centres,
\* one row above the chunk or in its top row, along the six axis directions.
RayTicks == 2
RayEdits == 1
RayOrigins ==
    {0, RayScale \div 2, RayScale}
      \X {CHUNK_HEIGHT * RayScale, CHUNK_HEIGHT * RayScale - RayScale \div 2}
      \X {0, RayScale \div 2}
RayDirections == SeqToSet(DIRECTIONS)

RayTick == ticks < RayTicks /\ Update(0, 0)
RayEdit == edits < RayEdits /\ SetBlock(0, CHUNK_HEIGHT - 1, 0, STONE)
RayQuery == \E origin \in RayOrigins, direction \in RayDirections : RayCast(origin, direction)

NextRay == RayTick \/ RayEdit \/ RayQuery

SpecRay == Init /\ [][NextRay]_vars

\* ------------------------------------------------- function specification
\* Probed columns of air, water and stone; chunk (0,0) and the chunk with the
\* ocean column; neighbour blocks that are not solid (air, water) and solid
\* (stone, glass); meshed blocks of every kind the culling rule tells apart.
ProbeBlocks == {AIR, WATER, STONE}
PureChunkXs == {0, FarChunk}
AoBlocks == {AIR, WATER, STONE, GLASS}
MeshBlocks == {AIR, WATER, STONE, GLASS, TORCH}
\* Grid cells: empty, wood, planks. Inventory slots: empty, a planks stack two
\* short of full, a full planks stack, a stick stack three short of full.
GridItems == {NoItem, "block_6", "block_17"}
SlotChoices == {EmptySlot, [type |-> "block_17", count |-> MaxStack - 2],
                [type |-> "block_17", count |-> MaxStack],
                [type |-> "stick", count |-> MaxStack - 3]}

PureShipwreck ==
    calls < PureCalls /\ \E probe \in [1..ScanTop -> ProbeBlocks] : Shipwreck(probe)
PureGenerate ==
    /\ calls < PureCalls
    /\ \E cx \in PureChunkXs, clay1 \in BOOLEAN, clay2 \in BOOLEAN :
        GenerateChunkTwice(cx, 0, clay1, clay2)
PureAO ==
    /\ calls < PureCalls
    /\ \E isWater \in BOOLEAN, b1 \in AoBlocks, b2 \in AoBlocks, b3 \in AoBlocks :
        AmbientOcclusion(isWater, b1, b2, b3)

PureMesh ==
    /\ calls < PureCalls
    /\ \E a \in MeshBlocks, b \in MeshBlocks, n \in MeshBlocks : BuildMeshCall(a, b, n)

PureTranslate ==
    /\ calls < PureCalls
    /\ \E w1 \in (-CoordRange)..CoordRange, w2 \in (-CoordRange)..CoordRange : Translate(w1, w2)

PureStream ==
    /\ calls < PureCalls
    /\ \E renderDistance \in 1..MaxRenderDistance, clay \in BOOLEAN :
          FirstUpdate(renderDistance, clay)

PureCraft ==
    /\ calls < PureCalls
    /\ \E grid \in [1..GridSize -> [1..GridSize -> GridItems]],
          slots \in [1..InventorySize -> SlotChoices] : CraftCall(grid, slots)

NextPure ==
    \/ PureShipwreck \/ PureGenerate \/ PureAO \/ PureMesh \/ PureTranslate \/ PureStream
    \/ PureCraft

SpecPure == Init /\ [][NextPure]_vars

\* ------------------------------------------- standing-observer specification
\* The observer stays in chunk (0,0) for the whole run: updateChunks with the
\* same position every frame, block edits and dimension switches in between.
StillTick == ticks < StillTicks /\ Update(0, 0)
StillEdit == edits < StillEdits /\ \E e \in StreamEdits : SetBlock(e[1], e[2], e[3], e[4])
StillSwitch == switches < StillSwitches /\ \E dimension \in Dimensions : SetDimension(dimension)

NextStill == StillTick \/ StillEdit \/ StillSwitch

SpecStill == Init /\ [][NextStill]_vars

\* ----------------------------------------------------- torch specification
\* The observer stays in chunk (0,0); torches are placed cell by cell, first
\* into every cell of chunk (0,0), then into cells of chunk (-1,0).
TorchCell(k) ==
    IF k <= NumBlocks THEN <<IndexX(k - 1), IndexY(k - 1), IndexZ(k - 1)>>
    ELSE <<IndexX(k - 1 - NumBlocks) - CHUNK_SIZE, IndexY(k - 1 - NumBlocks),
           IndexZ(k - 1 - NumBlocks)>>

TorchTick == ticks < TorchTicks /\ Update(0, 0)
TorchPlace ==
    /\ edits < TorchEdits
    /\ SetBlock(TorchCell(edits + 1)[1], TorchCell(edits + 1)[2], TorchCell(edits + 1)[3],
                TORCH)

NextTorch == TorchTick \/ TorchPlace

SpecTorch == Init /\ [][NextTorch]_vars

\* ------------------------------------------------- settling specification
\* Any activity for LiveWarm ticks (moving observer, edits, a dimension
\* switch), then updateChunks once per frame with the observer where the last
\* tick left it and no edits.
\* Frames allowed for settling: each warm-up tick can leave up to
\* (2 * renderDistance + 1)^2 entries in the generation queue.
LiveTicks == LiveWarm * (2 * RenderDistance + 1) * (2 * RenderDistance + 1)

LiveMove == ticks < LiveWarm /\ \E playerX \in PlayerXs, playerZ \in PlayerZs : Update(playerX, playerZ)
LiveEdit ==
    /\ ticks < LiveWarm
    /\ edits < LiveEdits
    /\ \E e \in StreamEdits : SetBlock(e[1], e[2], e[3], e[4])
LiveSwitch ==
    /\ ticks < LiveWarm
    /\ switches < LiveSwitches
    /\ \E dimension \in Dimensions : SetDimension(dimension)
LiveStay ==
    /\ LiveWarm <= ticks
    /\ ticks < LiveWarm + LiveTicks
    /\ Update(observer[1] * CHUNK_SIZE, observer[2] * CHUNK_SIZE)

NextLive == LiveMove \/ LiveEdit \/ LiveSwitch \/ LiveStay

\* A frame: the game loop calls updateChunks once more. Under NextLive the
\* steps that advance ticks are exactly the LiveMove and LiveStay steps, and
\* updateChunks accepts every input, so fairness of Frame is fairness of
\* LiveMove \/ LiveStay.
Frame == ticks < LiveWarm + LiveTicks /\ ticks' = ticks + 1

SpecLive == Init /\ [][NextLive]_vars /\ WF_ticks(Frame)

\* ================================================================ claims
\* The containing chunk of column (wx, wz) is resident and generated.
GeneratedAt(w, wx, wz) ==
    LET id == GetChunk(w, ChunkCoord(wx), ChunkCoord(wz))
    IN id # Nil /\ w.heap[id].isGenerated

InHeight(y) == 0 <= y /\ y < CHUNK_HEIGHT

\* The cells whose content the claims observe.
AllCells ==
    ((-CHUNK_SIZE)..(2 * CHUNK_SIZE - 1) \cup SetXs) \X ((-1)..CHUNK_HEIGHT)
        \X ((-CHUNK_SIZE)..(CHUNK_SIZE - 1))

\* needs_rebuild of the chunk at (cx, cz); FALSE when it is not resident.
Dirty(w, cx, cz) ==
    LET id == GetChunk(w, cx, cz)
    IN id # Nil /\ w.heap[id].needsRebuild

ResidentGenerated(w, cx, cz) ==
    LET id == GetChunk(w, cx, cz)
    IN id # Nil /\ w.heap[id].isGenerated

\* C1: set_block(x,y,z,T) on an in-range cell of a resident generated chunk
\* makes get_block(x,y,z) return T and leaves get_block at every other cell
\* as it was.
C1_RoundTrip ==
    [][\A x \in SetXs, y \in SetYs, z \in SetZs, type \in SetTypes :
         (SetBlock(x, y, z, type) /\ InHeight(y) /\ GeneratedAt(W, x, z)) =>
            /\ WorldGetBlock(W', x, y, z) = type
            /\ \A c \in AllCells \ {<<x, y, z>>} :
                  WorldGetBlock(W', c[1], c[2], c[3]) = WorldGetBlock(W, c[1], c[2], c[3])]_vars

\* A torch was written into chunk (0,0), which the generator never places.
C1_Witness ==
    /\ edits > 0
    /\ GeneratedAt(W, 0, 0)
    /\ WorldGetBlock(W, 0, CHUNK_HEIGHT - 1, 0) = TORCH

\* C2: set_block on a cell whose chunk is not resident or not generated
\* changes nothing: no block, no flag, no chunk, no queue, and every
\* get_block answers as before.
C2_UngeneratedNoOp ==
    [][\A x \in SetXs, y \in SetYs, z \in SetZs, type \in SetTypes :
         (SetBlock(x, y, z, type) /\ ~GeneratedAt(W, x, z)) =>
            /\ UNCHANGED worldVars
            /\ \A c \in AllCells :
                  WorldGetBlock(W', c[1], c[2], c[3]) = WorldGetBlock(W, c[1], c[2], c[3])]_vars

\* An edit was made while chunk (1,0) was missing and its neighbour (0,0) was
\* resident and clean; (0,0) is still clean.
C2_Witness ==
    /\ edits > 0
    /\ events = <<>>
    /\ ~HasChunk(W, 1, 0)
    /\ ResidentGenerated(W, 0, 0)
    /\ \A i \in 1..Len(chunks) : ~heap[chunks[i]].needsRebuild

\* C3: get_block changes nothing, and it answers Air when the chunk is not
\* resident, not generated, or y is outside [0, CHUNK_HEIGHT).
C3_GetBlockPure ==
    [][\A x \in GetXs, y \in GetYs, z \in GetZs :
         GetBlock(x, y, z) =>
            /\ UNCHANGED <<worldVars, events>>
            /\ (~GeneratedAt(W, x, z) \/ ~InHeight(y)) => lastGet'[4] = AIR]_vars

\* A query above the height range of a resident generated chunk answered Air,
\* and one inside the range of the same column answers a block.
C3_Witness ==
    /\ lastGet # NoGet
    /\ lastGet[2] = CHUNK_HEIGHT
    /\ lastGet[4] = AIR
    /\ GeneratedAt(W, lastGet[1], lastGet[3])
    /\ WorldGetBlock(W, lastGet[1], CHUNK_HEIGHT - 1, lastGet[3]) # AIR

\* C4: a successful set_block marks the edited chunk dirty, and for each axis
\* on which the local coordinate is 0 or CHUNK_SIZE-1 it marks the resident
\* generated chunk across that edge dirty (both of them at a corner).
C4_MarksNeighbours ==
    [][\A x \in SetXs, y \in SetYs, z \in SetZs, type \in SetTypes :
         (SetBlock(x, y, z, type) /\ InHeight(y) /\ GeneratedAt(W, x, z)) =>
            LET cx == ChunkCoord(x)
                cz == ChunkCoord(z)
                lx == x - cx * CHUNK_SIZE
                lz == z - cz * CHUNK_SIZE
            IN /\ Dirty(W', cx, cz)
               /\ (lx = 0 /\ ResidentGenerated(W, cx - 1, cz)) => Dirty(W', cx - 1, cz)
               /\ (lx = CHUNK_SIZE - 1 /\ ResidentGenerated(W, cx + 1, cz)) => Dirty(W', cx + 1, cz)
               /\ (lz = 0 /\ ResidentGenerated(W, cx, cz - 1)) => Dirty(W', cx, cz - 1)
               /\ (lz = CHUNK_SIZE - 1 /\ ResidentGenerated(W, cx, cz + 1)) => Dirty(W', cx, cz + 1)]_vars

\* After a corner edit of chunk (0,0): it and both chunks across the corner's
\* edges are dirty, the chunk across the opposite z edge is still clean.
C4_Witness ==
    /\ edits > 0
    /\ events = <<>>
    /\ Dirty(W, 0, 0) /\ Dirty(W, -1, 0) /\ Dirty(W, 0, -1)
    /\ ResidentGenerated(W, 0, 1) /\ ~Dirty(W, 0, 1)

\* ------------------------------------------------------------- meshing
\* A face <<x, y, z, d>> whose neighbour cell lies across an x/z chunk edge.
CrossesEdge(f) ==
    LET nx == f[1] + DIRECTIONS[f[4]][1]
        nz == f[3] + DIRECTIONS[f[4]][3]
    IN nx < 0 \/ nx >= CHUNK_SIZE \/ nz < 0 \/ nz >= CHUNK_SIZE

\* The part of a face set that the chunk's own block array determines.
OwnFaces(F) == {f \in F : ~CrossesEdge(f)}

\* The faces of a face set on the edge in direction d.
EdgeFaces(F, d) == {f \in F : f[4] = d /\ CrossesEdge(f)}

Resident == SeqToSet(chunks)

C6_BoundaryConsistent ==
    \A a \in Resident :
       \A d \in {1, 2, 5, 6} :
          LET A == heap[a]
              b == GetChunk(W, A.chunkX + DIRECTIONS[d][1], A.chunkZ + DIRECTIONS[d][3])
          IN (b # Nil /\ ~A.needsRebuild /\ ~heap[b].needsRebuild) =>
                /\ EdgeFaces(A.mesh, d) = EdgeFaces(FacesOf(A, W, FALSE), d)
                /\ EdgeFaces(A.waterMesh, d) = EdgeFaces(FacesOf(A, W, TRUE), d)

MeshEvents == {i \in 1..Len(events) : events[i].ev = "mesh"}
EvictEvents == {i \in 1..Len(events) : events[i].ev = "evict"}
GenerateEvents == {i \in 1..Len(events) : events[i].ev = "generate"}
EnqueueEvents == {i \in 1..Len(events) : events[i].ev = "enqueue"}

PhaseOrder ==
    /\ \A i \in GenerateEvents : \A j \in MeshEvents \cup EvictEvents : i < j
    /\ \A i \in MeshEvents : \A j \in EvictEvents : i < j

\* C8: within one update generation precedes meshing and meshing precedes
\* eviction, and every evicted chunk was meshed at least once before.
C8_NeverEvictedUnmeshed ==
    /\ PhaseOrder
    /\ \A i \in EvictEvents : events[i].everMeshed

\* C9: right after an update every chunk of the map is within
\* renderDistance + 2 of the observer's chunk, and nothing of an evicted
\* chunk (meshes, torch group, lights) is left in the scene or the registry.
C9_EvictsBeyondMargin ==
    [][ticks' = ticks + 1 =>
         /\ \A id \in Resident' :
               LET dx == heap'[id].chunkX - observer'[1]
                   dz == heap'[id].chunkZ - observer'[2]
               IN dx * dx + dz * dz <= (RenderDistance + 2) * (RenderDistance + 2)
         /\ \A i \in EvictEvents' :
               /\ events'[i].inst \notin Resident'
               /\ \A o \in scene' : o.inst # events'[i].inst
               /\ <<events'[i].x, events'[i].z>> \notin DOMAIN torchLights']_vars

\* An update evicted a meshed chunk that had torch lights and kept another.
C9_Witness ==
    /\ \E i \in EvictEvents : events[i].everMeshed /\ events[i].lights > 0
    /\ chunks # <<>>

\* C10: update enqueues exactly the coordinates that are not resident and
\* within renderDistance (Euclidean) of the observer's chunk, each tagged
\* with its distance.
C10_EnqueuesEuclideanDisc ==
    [][ticks' = ticks + 1 =>
         {<<events'[i].x, events'[i].z, events'[i].priority>> : i \in EnqueueEvents'}
         = {<<observer'[1] + dx, observer'[2] + dz, dx * dx + dz * dz>> :
              <<dx, dz>> \in {v \in ((-RenderDistance)..RenderDistance)
                                      \X ((-RenderDistance)..RenderDistance) :
                                 /\ v[1] * v[1] + v[2] * v[2] <= RenderDistance * RenderDistance
                                 /\ ~HasChunk(W, observer'[1] + v[1], observer'[2] + v[2])}}]_vars

\* ------------------------------------------------------- per-tick budgets
\* C11: one update generates at most chunksPerFrame (2) chunks and rebuilds
\* at most rebuildsPerFrame (4) meshes, whatever is pending.
C11_PerTickCaps ==
    /\ Cardinality(GenerateEvents) <= chunksPerFrame
    /\ Cardinality(MeshEvents) <= rebuildsPerFrame

\* An update used both budgets in full and left generation work pending.
C11_Witness ==
    /\ Cardinality(GenerateEvents) = chunksPerFrame
    /\ Cardinality(MeshEvents) = rebuildsPerFrame
    /\ Len(chunksToGenerate) > 0

\* ------------------------------------------------------------- settling
\* Every coordinate within renderDistance (Euclidean) of the observer's chunk
\* is resident, generated and meshed.
DiscComplete ==
    \A dx \in (-RenderDistance)..RenderDistance, dz \in (-RenderDistance)..RenderDistance :
       dx * dx + dz * dz <= RenderDistance * RenderDistance =>
          LET id == GetChunk(W, observer[1] + dx, observer[2] + dz)
          IN /\ id # Nil
             /\ heap[id].isGenerated
             /\ heap[id].everMeshed
             /\ ~heap[id].needsRebuild

\* C12: with update called every frame, a fixed observer and no edits,
\* eventually every coordinate within renderDistance of the observer's chunk
\* is resident, generated and meshed, and stays so.
C12_EventuallyStreamed == <>[]DiscComplete

\* The observer moved before settling, the disc around it is complete, and
\* generation work is still pending.
C12_Witness ==
    /\ ticks = LiveWarm + LiveTicks
    /\ observer # <<0, 0>>
    /\ DiscComplete
    /\ Len(chunksToGenerate) > 0

\* The loot record the ruined portal of chunk (cx, 0) registers when its probe
\* finds ground in row y.
PortalLoot(cx, y) ==
    LootChest(PortalChest(cx, y)[1], PortalChest(cx, y)[2], PortalChest(cx, y)[3], "obsidian")

\* C13: structure stamping is idempotent per chunk coordinate: a
\* generateStructures call for a coordinate that was processed before, be it
\* by an update that generated the chunk or by an earlier call, before or
\* after a dimension switch, writes no block and adds no loot or village
\* record (it leaves the whole world state as it was); and the registry never
\* holds two loot records of one portal.
C13_StampIdempotent ==
    [][/\ (lastCall'.op = "generateStructures" /\ lastCall'.args \in generatedStructures)
           => UNCHANGED worldVars
       /\ \A i, j \in 1..Len(lootChests') : lootChests'[i] = lootChests'[j] => i = j]_vars

\* C13 witness: after a dimension switch, a call for a coordinate whose first
\* call built a portal and registered its loot was repeated.
C13_Witness ==
    /\ lastCall.op = "generateStructures"
    /\ lastCall.result[1].processedBefore
    /\ switches > 0
    /\ \E i \in 1..Len(lootChests) : lootChests[i] = PortalLoot(lastCall.args[1], CHUNK_HEIGHT - 1)

\* The rows of the probed column of chunk (cx, cz) that hold ground (neither
\* air nor water) in the chunk's freshly generated blocks.
FreshGroundRows(cx, cz) ==
    {y \in 1..(CHUNK_HEIGHT - 1) :
        \A clay \in BOOLEAN :
            LET block == TerrainBlock(cx * CHUNK_SIZE + ProbeOffset, y,
                                      cz * CHUNK_SIZE + ProbeOffset, clay)
            IN block # AIR /\ block # WATER}

\* C14: structures are stamped into the newly generated chunk: when an update
\* generated an overworld chunk whose structure roll succeeds and whose
\* freshly generated blocks hold ground on the probed column, the ruined
\* portal was built there and its loot record is registered.
C14_StampedIntoNewChunk ==
    \A i \in GenerateEvents :
        (/\ currentDimension = "overworld"
         /\ ShouldGenerateStructure(events[i].x, events[i].z)
         /\ FreshGroundRows(events[i].x, events[i].z) # {})
        => \E k \in 1..Len(lootChests) :
              /\ lootChests[k].x = events[i].x * CHUNK_SIZE + ProbeOffset + 1
              /\ lootChests[k].z = events[i].z * CHUNK_SIZE + ProbeOffset - 1
              /\ lootChests[k].y - 1 \in FreshGroundRows(events[i].x, events[i].z)

\* C15: the forced spawn village runs exactly once: after every
\* generateSpawnVillage call exactly one village record, at (0,0), exists; the
\* first call flattens the square around (0,0) to grass where chunks are
\* generated; a later call writes no block and adds no record.
C15_SpawnVillageOnce ==
    [][lastCall'.op = "generateSpawnVillage"
       => /\ villageLocations' = << [x |-> 0, z |-> 0] >>
          /\ spawnVillageGenerated'
          /\ spawnVillageGenerated => UNCHANGED worldVars
          /\ (~spawnVillageGenerated /\ GeneratedAt(W, VillageRadius, VillageRadius))
             => /\ villageLocations = <<>>
                /\ WorldGetBlock(W', VillageRadius, VillageGround(W, 0, 0), VillageRadius)
                     = GRASS]_vars

\* C15 witness: the call was repeated after a first call that turned the dirt
\* corner of the square into grass, and one record exists.
C15_Witness ==
    /\ lastCall.op = "generateSpawnVillage"
    /\ lastCall.result[1].generatedBefore
    /\ Len(villageLocations) = 1
    /\ TerrainBlock(VillageRadius, CHUNK_HEIGHT - 1, VillageRadius, FALSE) = DIRT
    /\ WorldGetBlock(W, VillageRadius, CHUNK_HEIGHT - 1, VillageRadius) = GRASS

\* The registry entries at a position.
ChestsAt(chests, p) ==
    {i \in 1..Len(chests) : chests[i].x = p[1] /\ chests[i].y = p[2] /\ chests[i].z = p[3]}

\* C16: loot is claimed at most once: checkLootChest at a position with a
\* record returns that record and removes it, after which no record is left
\* at the position (a later lookup there takes the not-found case); at a
\* position with no record it returns null and changes nothing; all other
\* records stay, in their order.
C16_LootClaimedOnce ==
    [][lastCall'.op = "checkLootChest"
       => /\ UNCHANGED <<chunks, heap, scene, torchLights, generatedStructures,
                         villageLocations, spawnVillageGenerated>>
          /\ IF ChestsAt(lootChests, lastCall'.args) = {}
             THEN lastCall'.result = <<>> /\ lootChests' = lootChests
             ELSE /\ Len(lastCall'.result) = 1
                  /\ \E i \in ChestsAt(lootChests, lastCall'.args) :
                        lastCall'.result[1] = lootChests[i]
                  /\ ChestsAt(lootChests', lastCall'.args) = {}
                  /\ lootChests' = SelectSeq(lootChests,
                                             LAMBDA c : <<c.x, c.y, c.z>> # lastCall'.args)]_vars

\* C16 witness: a lookup returned the record of one portal while the record
\* of another portal stayed in the registry.
C16_Witness ==
    /\ lastCall.op = "checkLootChest"
    /\ lastCall.result # <<>>
    /\ Len(lootChests) = 1
    /\ ChestsAt(lootChests, lastCall.args) = {}

\* C17: shipwreck gating: tryGenerateShipwreck writes a block or registers
\* loot only if the probed column has a water surface and, below it, an ocean
\* floor with at least 5 blocks of water between the floor and the surface
\* (so a water column of depth less than 5 above stone never gets one).
C17_ShipwreckGated ==
    lastCall.op = "tryGenerateShipwreck"
    => ((lastCall.result[1].writes # <<>> \/ lastCall.result[1].loot # <<>>)
        => \E surface \in 1..ScanTop, floor \in 1..ScanTop :
              /\ floor < surface
              /\ lastCall.args[surface] = WATER
              /\ lastCall.args[floor] \notin {WATER, AIR}
              /\ Cardinality({r \in (floor + 1)..surface : lastCall.args[r] = WATER})
                   >= ShipwreckMinDepth)

\* C19: generation determinism: two generateChunk calls on fresh chunks of
\* the same coordinate produce identical block arrays.
C19_GenerationDeterministic ==
    lastCall.op = "generateChunk"
    => lastCall.result[1].first = lastCall.result[1].second

\* 1 for a solid block, 0 for any other.
SolidBit(block) == IF Solid(block) THEN 1 ELSE 0

\* C20: AO bounds: the level of a corner is 0 when both side neighbours are
\* solid and 3 - (side1 + side2 + corner) otherwise, it lies in 0..3 (so the
\* normalised value level / 3 lies in [0,1]), and it is 3 on a water face.
C20_AoBounds ==
    lastCall.op = "calculateAO"
    => /\ lastCall.result[1].level \in 0..3
       /\ lastCall.args[4] = 1 => lastCall.result[1].level = 3
       /\ (lastCall.args[4] = 0 /\ Solid(lastCall.args[1]) /\ Solid(lastCall.args[2]))
          => lastCall.result[1].level = 0
       /\ (lastCall.args[4] = 0 /\ ~(Solid(lastCall.args[1]) /\ Solid(lastCall.args[2])))
          => lastCall.result[1].level
               = 3 - (SolidBit(lastCall.args[1]) + SolidBit(lastCall.args[2])
                      + SolidBit(lastCall.args[3]))

\* C20 witness: both side neighbours solid, the corner not: level 0.
C20_Witness ==
    /\ lastCall.op = "calculateAO"
    /\ lastCall.args[4] = 0
    /\ Solid(lastCall.args[1]) /\ Solid(lastCall.args[2]) /\ ~Solid(lastCall.args[3])
    /\ lastCall.result[1].level = 0

\* Offset of the hit sample from the centre of the hit voxel, per axis.
HitOffset(r) == [i \in 1..3 |-> r.position[i] - (r.blockPos[i] * RayScale + RayScale \div 2)]

\* The unit vector along axis i with the sign of a.
AxisUnit(i, a) == [j \in 1..3 |-> IF j = i THEN Sign(a) ELSE 0]

\* C18: raycast from (0, h, 0), h the row above a solid block of a generated
\* chunk with air at the origin (65 above 64 in the source), straight down
\* returns hit = true, blockPos = (0, h - 1, 0) and normal = (0, 1, 0); and the
\* normal of every hit is the unit vector on the axis of largest absolute
\* offset of the hit sample from the voxel centre.
C18_RaycastDown ==
    lastCall.op = "raycast"
    => /\ (/\ lastCall.args = <<0, CHUNK_HEIGHT * RayScale, 0, 0, -1, 0>>
           /\ GeneratedAt(W, 0, 0)
           /\ Solid(WorldGetBlock(W, 0, CHUNK_HEIGHT - 1, 0)))
          => /\ lastCall.result[1].hit
             /\ lastCall.result[1].blockPos = <<0, CHUNK_HEIGHT - 1, 0>>
             /\ lastCall.result[1].normal = <<0, 1, 0>>
       /\ lastCall.result[1].hit
          => \E i \in 1..3 :
                /\ \A j \in 1..3 : Abs(HitOffset(lastCall.result[1])[i])
                                      >= Abs(HitOffset(lastCall.result[1])[j])
                /\ HitOffset(lastCall.result[1])[i] # 0
                /\ lastCall.result[1].normal
                     = AxisUnit(i, HitOffset(lastCall.result[1])[i])

\* ------------------------------------------------------ generation order
\* Squared distance of chunk coordinate (x, z) from chunk coordinate o.
DistSq(x, z, o) == (x - o[1]) * (x - o[1]) + (z - o[2]) * (z - o[2])

DequeueEvents == {i \in 1..Len(events) : events[i].ev = "dequeue"}

\* C21: closest-first generation: when update dequeues an entry (and
\* generates its chunk), no entry dequeued later or left in the queue has a
\* strictly smaller tagged distance; and with an observer that never moves
\* chunks are generated in nondecreasing distance from the observer's chunk,
\* within an update and from one update to the next.
C21_ClosestFirst ==
    /\ \A i \in DequeueEvents :
          /\ \A j \in DequeueEvents : i < j => events[i].priority <= events[j].priority
          /\ \A k \in 1..Len(chunksToGenerate) :
                events[i].priority <= chunksToGenerate[k].priority
    /\ \A i \in GenerateEvents :
          /\ events[i - 1].ev = "dequeue"
          /\ events[i - 1].x = events[i].x /\ events[i - 1].z = events[i].z
          /\ \A id \in Resident :
                \/ \E j \in GenerateEvents : i <= j /\ events[j].inst = id
                \/ DistSq(heap[id].chunkX, heap[id].chunkZ, observer)
                     <= DistSq(events[i].x, events[i].z, observer)

\* C21 witness: an update generated a corner chunk of the square (the largest
\* distance) after the nearer chunks, with entries still pending.
C21_Witness ==
    /\ \E i \in GenerateEvents :
          DistSq(events[i].x, events[i].z, observer) = 2 * RenderDistance * RenderDistance
    /\ \E id \in Resident : DistSq(heap[id].chunkX, heap[id].chunkZ, observer) = 1
    /\ Len(chunksToGenerate) > 0

\* -------------------------------------------------------- rebuild passes
\* Mesh builds of the log made by the pass over the map (1) or by the drain
\* of the rebuild queue (2).
PassEvents(ev, pass) == {i \in 1..Len(ev) : ev[i].ev = "mesh" /\ ev[i].pass = pass}

\* The instances generated by the logged update, in order.
GeneratedInsts(ev) ==
    LET gen == SelectSeq(ev, LAMBDA e : e.ev = "generate")
    IN [k \in 1..Len(gen) |-> gen[k].inst]

\* C22: rebuild preference within one update: the pass over the map comes
\* first and rebuilds chunks of the map that are dirty; the rebuild queue is
\* popped only when that pass left budget (fewer than rebuildsPerFrame
\* builds), by which time every dirty chunk of the map has been rebuilt; each
\* build of the drain is of a popped chunk and starts with budget left; and no
\* chunk is built twice (one meshed by the first pass is popped without a
\* second build).
C22_RebuildPreference ==
    [][ticks' = ticks + 1 =>
         LET full == chunksToRebuild \o GeneratedInsts(events')
             npop == Len(full) - Len(chunksToRebuild')
             pass1 == PassEvents(events', 1)
             pass2 == PassEvents(events', 2)
             built(p) == {events'[i].inst : i \in p}
         IN /\ \A i \in pass1 : \A j \in pass2 : i < j
            /\ \A i \in pass1 :
                  /\ events'[i].resident
                  /\ events'[i].isGenerated
                  /\ \/ events'[i].inst \in SeqToSet(GeneratedInsts(events'))
                     \/ heap[events'[i].inst].needsRebuild
            /\ npop >= 0
            /\ chunksToRebuild' = SubSeq(full, npop + 1, Len(full))
            /\ npop > 0 =>
                  /\ Cardinality(pass1) < rebuildsPerFrame
                  /\ \A id \in Resident' : ~heap'[id].needsRebuild
                  /\ \A id \in Resident \cup SeqToSet(GeneratedInsts(events')) :
                        (id \in SeqToSet(GeneratedInsts(events')) \/ heap[id].needsRebuild)
                        => id \in built(pass1)
            /\ \A j \in pass2 :
                  /\ Cardinality({i \in pass1 \cup pass2 : i < j}) < rebuildsPerFrame
                  /\ \E k \in 1..npop : full[k] = events'[j].inst
                  /\ events'[j].inst \notin built(pass1)
            /\ \A i, j \in pass1 \cup pass2 : events'[i].inst = events'[j].inst => i = j]_vars

\* C22 witness: an update generated a chunk, meshed it in the pass over the
\* map, popped it from the rebuild queue without a second build, and built
\* another chunk from the queue.
C22_Witness ==
    /\ \E i \in GenerateEvents :
          /\ \E j \in PassEvents(events, 1) : events[j].inst = events[i].inst
          /\ events[i].inst \notin SeqToSet(chunksToRebuild)
          /\ \A j \in PassEvents(events, 2) : events[j].inst # events[i].inst
    /\ PassEvents(events, 2) # {}

MeshCell(args, x, y, z) ==
    IF <<x, y, z>> = <<0, 0, 0>> THEN args[1]
    ELSE IF <<x, y, z>> = <<0, CHUNK_HEIGHT - 1, 0>> THEN args[2]
    ELSE AIR
MeshLookup(args, wx, wy, wz) ==
    IF <<wx, wy, wz>> = <<-1, CHUNK_HEIGHT - 1, 0>> THEN args[3] ELSE AIR

\* The neighbour of a cell in direction d as the rule describes it.
RuleNeighbor(args, x, y, z, d) ==
    LET nx == x + DIRECTIONS[d][1]
        ny == y + DIRECTIONS[d][2]
        nz == z + DIRECTIONS[d][3]
    IN IF ny < 0 \/ ny >= CHUNK_HEIGHT THEN AIR
       ELSE IF nx < 0 \/ nx >= CHUNK_SIZE \/ nz < 0 \/ nz >= CHUNK_SIZE
            THEN MeshLookup(args, nx, ny, nz)
       ELSE MeshCell(args, nx, ny, nz)

\* The faces the rule emits, into the water buffer or the solid one.
RuleFaces(args, isWater) ==
    {f \in (0..(CHUNK_SIZE - 1)) \X (0..(CHUNK_HEIGHT - 1)) \X (0..(CHUNK_SIZE - 1)) \X (1..6) :
        LET b == MeshCell(args, f[1], f[2], f[3])
            n == RuleNeighbor(args, f[1], f[2], f[3], f[4])
        IN /\ b # AIR /\ b # TORCH
           /\ (b = WATER) = isWater
           /\ ~(Solid(n) /\ ~Transparent(n))
           /\ ~(b = WATER /\ n = WATER)}

\* C24: face culling rule: buildMesh emits the face of block b in direction
\* d if and only if b is neither air nor torch, the neighbour n is not both
\* solid and non-transparent, and not (b is water and n is water), with air
\* above and below the height range and the neighbour lookup across an x/z
\* edge; each emitted face adds 4 vertices (12 position numbers) and 6
\* indices, which refer to those 4 vertices, to the solid buffer, or to the
\* water buffer when b is water.
C24_FaceCulling ==
    lastCall.op = "buildMesh"
    => /\ lastCall.result[1].mesh = RuleFaces(lastCall.args, FALSE)
       /\ lastCall.result[1].waterMesh = RuleFaces(lastCall.args, TRUE)
       /\ \A t \in {"solid", "water"} :
             LET buf == lastCall.result[1][t]
                 faces == RuleFaces(lastCall.args, t = "water")
             IN /\ Len(buf.positions) = 3 * 4 * Cardinality(faces)
                /\ Len(buf.indices) = 6 * Cardinality(faces)
                /\ \A k \in 1..Len(buf.indices) :
                      /\ buf.indices[k] >= 4 * ((k - 1) \div 6)
                      /\ buf.indices[k] < 4 * ((k - 1) \div 6) + 4

\* C24 witness: water above water next to glass across the chunk edge: the
\* face between the two water blocks is culled, the face towards the glass
\* and the faces towards above and below the height range are emitted.
C24_Witness ==
    /\ lastCall.op = "buildMesh"
    /\ lastCall.args = <<WATER, WATER, GLASS>>
    /\ <<0, 0, 0, 3>> \notin lastCall.result[1].waterMesh
    /\ <<0, CHUNK_HEIGHT - 1, 0, 2>> \in lastCall.result[1].waterMesh
    /\ <<0, CHUNK_HEIGHT - 1, 0, 3>> \in lastCall.result[1].waterMesh
    /\ <<0, 0, 0, 4>> \in lastCall.result[1].waterMesh
    /\ Len(lastCall.result[1].water.indices) = 6 * Cardinality(lastCall.result[1].waterMesh)
    /\ lastCall.result[1].mesh = {}

\* ------------------------------------------------ coordinate translation
\* C25: coordinate translation: for every integer world coordinate w,
\* negative ones included, chunk = floor(w / CHUNK_SIZE) and
\* local = ((w % CHUNK_SIZE) + CHUNK_SIZE) % CHUNK_SIZE satisfy
\* 0 <= local < CHUNK_SIZE and chunk * CHUNK_SIZE + local = w, and two
\* distinct world coordinates never get the same (chunk, local) pair.
C25_CoordinateTranslation ==
    lastCall.op = "translate"
    => LET r == lastCall.result[1]
       IN /\ 0 <= r.local1 /\ r.local1 < CHUNK_SIZE
          /\ r.chunk1 * CHUNK_SIZE + r.local1 = lastCall.args[1]
          /\ 0 <= r.local2 /\ r.local2 < CHUNK_SIZE
          /\ r.chunk2 * CHUNK_SIZE + r.local2 = lastCall.args[2]
          /\ (r.chunk1 = r.chunk2 /\ r.local1 = r.local2) => lastCall.args[1] = lastCall.args[2]

\* C25 witness: -1 is the last cell of chunk -1, and CHUNK_SIZE - 1 the last
\* cell of chunk 0.
C25_Witness ==
    /\ lastCall.op = "translate"
    /\ lastCall.args = <<-1, CHUNK_SIZE - 1>>
    /\ lastCall.result[1].chunk1 = -1
    /\ lastCall.result[1].chunk2 = 0
    /\ lastCall.result[1].local1 = CHUNK_SIZE - 1
    /\ lastCall.result[1].local2 = CHUNK_SIZE - 1

\* -------------------------------------------------------- evicted chunks
\* C26: an evicted chunk is dead: every build_mesh call of update is made on
\* a chunk instance that is in the world map, and every mesh, torch group and
\* torch light of the scene belongs to a chunk that is in the world map.
C26_EvictedChunkDead ==
    /\ \A i \in MeshEvents : events[i].resident
    /\ \A o \in scene : o.inst \in Resident

\* ------------------------------------------------------- queue contents
\* C27: the pending-generate queue never holds two entries for one chunk
\* coordinate, its length never exceeds (2 * renderDistance + 1)^2, and every
\* dequeue of update generates a chunk (its entry was not resident).
C27_QueueHasNoDuplicates ==
    /\ \A i, j \in 1..Len(chunksToGenerate) :
          (chunksToGenerate[i].x = chunksToGenerate[j].x
           /\ chunksToGenerate[i].z = chunksToGenerate[j].z) => i = j
    /\ Len(chunksToGenerate) <= (2 * RenderDistance + 1) * (2 * RenderDistance + 1)
    /\ \A i \in DequeueEvents : ~events[i].resident

\* ------------------------------------------------------------ quiescence
\* C28: streaming quiesces for every render distance: with a fixed observer
\* and no edits, repeated updates reach a steady state with nothing generated,
\* nothing evicted and an empty queue. A coordinate that update enqueues for
\* the observer's chunk but that lies beyond the unload distance cannot stay
\* resident while the observer stays: every later update enqueues it again,
\* or generates and evicts it. A steady state therefore requires that every
\* coordinate update enqueues lies within renderDistance + 2 of the
\* observer's chunk, which is what the formula states for the first update of
\* a world of any render distance.
C28_StreamingQuiesces ==
    lastCall.op = "updateChunks"
    => \A i \in 1..Len(lastCall.result[1].log) :
          lastCall.result[1].log[i].ev = "enqueue"
          => lastCall.result[1].log[i].priority
               <= (lastCall.args[1] + 2) * (lastCall.args[1] + 2)

\* ----------------------------------------------------------- torch lights
\* C29: torch light cap: the number of torch point lights registered in the
\* world, and the number present in the scene, is at most MAX_TORCH_LIGHTS.
C29_TorchLightCap ==
    /\ GetTotalTorchLights(torchLights) <= MAX_TORCH_LIGHTS
    /\ Cardinality({o \in scene : o.kind = "light"}) <= MAX_TORCH_LIGHTS

\* -------------------------------------------------------------- crafting
\* Number of items of a type in the inventory slots.
RECURSIVE CountFrom(_, _, _)
CountFrom(slots, i, type) ==
    IF i > Len(slots) THEN 0
    ELSE (IF slots[i].type = type THEN slots[i].count ELSE 0) + CountFrom(slots, i + 1, type)

\* C30: a failed craft changes nothing: when craft returns false the grid
\* and the inventory are exactly as before the call; when it returns true
\* the full result count was added to the inventory and every grid cell is
\* empty.
C30_FailedCraftChangesNothing ==
    lastCall.op = "craft"
    => LET r == lastCall.result[1]
       IN /\ ~r.returned => (r.grid = r.gridBefore /\ r.slots = r.slotsBefore)
          /\ r.returned =>
                /\ r.recipe # NoResult
                /\ CountFrom(r.slots, 1, r.recipe.type)
                     = CountFrom(r.slotsBefore, 1, r.recipe.type) + r.recipe.count
                /\ \A y \in 1..GridSize : \A x \in 1..GridSize : r.grid[y][x] = NoItem

====
